---- MODULE Spec2Model ----
(***************************************************************************)
(* Model of the netweather scanner core:                                   *)
(*   - the parallel URL-processing pipeline of parallel.go (ProcessURLs,   *)
(*     urlWorker, processURL, resultCollector, ProgressTracker);           *)
(*   - the reachability check of reachability.go;                          *)
(*   - the layered library identification (identifyLibrary and its         *)
(*     strategies, the checksum cache and the file checksum database).     *)
(***************************************************************************)
EXTENDS Integers, Sequences, FiniteSets, Bags, TLC

(***************************************************************************)
(* Bounds of the model.                                                    *)
(***************************************************************************)
MaxJobs == 3
MaxCfgWorkers == 2
MaxCalls == 2
\* jobs followed in detail, one after the other
MaxSeqJobs == 2
\* ScanResults of one scanned page
MaxScripts == 3
\* batches the NMAP scanner service creates
MaxBatches == 2
\* restarts of the NMAP scanner service
MaxRestarts == 1
MaxLines == 2
MaxSetRemoteDB == 1
MaxReads == 2

(***************************************************************************)
(* Program constants.                                                      *)
(***************************************************************************)
StatusOK == 200

VARIABLES
    \* ---- inputs of ProcessURLs ----
    urls,            \* len(urls): the number of input URLs
    cfgMaxWorkers,   \* pp.config.MaxWorkers as configured
    \* ---- ProcessURLs (the submitting goroutine) ----
    pc,              \* position of ProcessURLs
    maxWorkers,      \* local maxWorkers after validation
    submitted,       \* loop index i of the "Send jobs" loop
    retVal,          \* "none" while running, then "nil" or "ctxErr"
    wg,              \* sync.WaitGroup counter
    ctxDone,         \* ctx.Done() is closed
    \* ---- channels ----
    jobs, jobsClosed,
    results, resultsClosed,
    collectorDone,   \* collectorDone channel closed
    \* ---- urlWorker goroutines ----
    workers,         \* the bag of the workers' states: position (pc), job
                     \* held (-1: none) and URLResult built
    \* ---- resultCollector ----
    cpc, processedCount,
    \* ---- ProgressTracker ----
    tracker,
    \* ---- history of the run ----
    dequeued,        \* job indexes received by workers
    dequeuedCount,   \* number of receives from jobs
    sent,            \* number of URLResults sent on results
    collected,       \* job indexes of results handled by the collector
                     \* (their number is processedCount)
    cancelEarly,     \* ctx was cancelled while some job was not yet dequeued
    summaryShown,    \* displayFinalSummary has run
    \* ---- identifyLibrary calls (one per script, by any worker) ----
    ipc,             \* position of each caller in its current call
    iin,             \* arguments of the call: scriptURL, jsCode, checksum
    iret,            \* LibraryInfo the call returns (NoInfo: none yet)
    iran,            \* strategies the call has run so far
    iapi,            \* what identifyLibraryFromAPI returned to the call
    callsMade,       \* number of identifyLibrary calls started
    \* ---- identifyLibraryFromAPI: fan-out of one call ----
    qpc,             \* position of each of the three query goroutines
    resultChan,      \* buffered channel of the call (capacity 3)
    resultChanClosed,
    lookupCtxDone,   \* the call's 10-second context is done
    \* ---- process-wide caches ----
    checksumCache,   \* checksumCache.cache
    fileChecksumDB,  \* entries, loaded, useRemote
    entriesDB,       \* the local entries.db: present or not, its lines
    apiQueries,      \* number of requests made to the external API
    \* ---- one job after the other, in detail (processURL, then the
    \*      collector's handling of its result) ----
    useDB,           \* pp.config.UseDB
    jtotal,          \* number of jobs of the run
    jn,              \* jobs whose result the collector has handled
    jpc,             \* position in the handling of the current job
    jin,             \* the job: verdict of shouldExcludeURL, scheme of the URL
    probes,          \* the requests checkProtocol has issued for the job
    jrec,            \* the URLReachability being filled in
    jerr,            \* checkURLReachability returned an error
    jresult,         \* the URLResult processURL returns
    jscanURL,        \* argument of scanURLForResults ("": not called)
    jscripts,        \* len(result.ScanResults)
    jpage,           \* what http.Get(baseURL) and the script fetches yield
    jscanResults,    \* result.ScanResults
    verbose,         \* config.Verbose
    jout,            \* what updateProgressDisplay printed for the job
    jstores,         \* store calls made for the job: by whom, what, outcome
    jtracker,        \* the ProgressTracker
    jt0,             \* the ProgressTracker when the job was taken
    jretVal,         \* what the run returned ("none": still running)
    \* ---- the NMAP scanner service ----
    nextID,          \* number of batch ids generated so far
    batch,           \* the BatchStatus objects in memory, by id
    batches,         \* the ids that have an entry in the batches map
    batchesDir,      \* the <id>.json files of batchesDir
    resultsDir,      \* the ids with an <id>.xml file in resultsDir
    scanpc,          \* position of the runScan goroutine of each batch
    issued,          \* batch ids returned to clients
    restarts,        \* number of restarts of the service
    lastResp,        \* the last HTTP response sent
    \* ---- the file checksum database on its own ----
    fileDB,          \* the FileChecksumDB: entries, loaded, useRemote
    localSrc,        \* the local entries.db
    remoteSrc,       \* the entries.db the download yields
    dbReads,         \* per SetRemoteDB setting in turn (the first is the
                     \* initial one): how often the source has been read
    dbLast           \* the last queryFileChecksumDB call: checksum, result,
                     \* error of the load

ppVars == <<urls, cfgMaxWorkers, pc, maxWorkers, submitted, retVal,
            wg, ctxDone, jobs, jobsClosed, results, resultsClosed,
            collectorDone, workers, cpc, processedCount, tracker,
            dequeued, dequeuedCount, sent, collected, cancelEarly,
            summaryShown>>

idVars == <<ipc, iin, iret, iran, iapi, callsMade, qpc, resultChan, resultChanClosed,
            lookupCtxDone, checksumCache, fileChecksumDB, entriesDB,
            apiQueries>>

jobVars == <<useDB, jtotal, jn, jpc, jin, probes, jrec, jerr, jresult,
             jscanURL, jscripts, jpage, jscanResults, jstores, jtracker,
             jt0, jretVal, verbose, jout>>

nmVars == <<nextID, batch, batches, batchesDir, resultsDir, scanpc, issued,
            restarts, lastResp>>

fdbVars == <<fileDB, localSrc, remoteSrc, dbReads, dbLast>>

vars == <<ppVars, idVars, jobVars, nmVars, fdbVars>>

\* what the steps of one part of the program leave alone
notPP == <<idVars, jobVars, nmVars, fdbVars>>
notId == <<ppVars, jobVars, nmVars, fdbVars>>
notJob == <<ppVars, idVars, nmVars, fdbVars>>
notNm == <<ppVars, idVars, jobVars, fdbVars>>
notFdb == <<ppVars, idVars, jobVars, nmVars>>

(***************************************************************************)
(* reachability.go                                                         *)
(***************************************************************************)
\* Input URLs by what url.Parse makes of them.
Schemes == {"", "http", "https", "ftp", "invalid"}

\* Outcome of one client.Get: an error, or a response with a status code
\* (200, or 404 for any other status) and a final request URL that differs
\* (redirected) or not from the requested one.
ProbeFail == [ok |-> FALSE, status |-> 0, redirected |-> FALSE]
ProbeOutcomes == {ProbeFail} \cup
    [ok : {TRUE}, status : {StatusOK, 404}, redirected : BOOLEAN]

NewURLReachability ==
    [HTTPAvailable |-> FALSE, HTTPSAvailable |-> FALSE,
     HTTPStatusCode |-> 0, HTTPSStatusCode |-> 0,
     HTTPRedirectURL |-> "", HTTPSRedirectURL |-> "", FinalURL |-> ""]

\* checkProtocol(client, url, result, isHTTP) with the probe's outcome p
checkProtocol(url, result, isHTTP, p) ==
    IF ~p.ok THEN result
    ELSE IF isHTTP
         THEN [result EXCEPT !.HTTPAvailable = TRUE,
                             !.HTTPStatusCode = p.status,
                             !.HTTPRedirectURL =
                                 IF p.redirected THEN "redirect:" \o url ELSE ""]
         ELSE [result EXCEPT !.HTTPSAvailable = TRUE,
                             !.HTTPSStatusCode = p.status,
                             !.HTTPSRedirectURL =
                                 IF p.redirected THEN "redirect:" \o url ELSE ""]

determineRedirectURL(originalURL, redirectURL) ==
    IF redirectURL # "" THEN redirectURL ELSE originalURL

\* checkURLReachability of an input whose scheme is `scheme`; hp and hsp are
\* the outcomes the HTTP and the HTTPS probe have if they are issued.
\* Result: [err |-> TRUE] or [err |-> FALSE, r |-> record].
checkURLReachability(scheme, hp, hsp) ==
    IF scheme = "invalid" THEN [err |-> TRUE, r |-> NewURLReachability]
    ELSE IF scheme = ""
    THEN LET r1 == checkProtocol("http://u", NewURLReachability, TRUE, hp)
             r2 == checkProtocol("https://u", r1, FALSE, hsp)
             r3 == IF r2.HTTPSAvailable
                   THEN [r2 EXCEPT !.FinalURL =
                            determineRedirectURL("https://u", r2.HTTPSRedirectURL)]
                   ELSE IF r2.HTTPAvailable
                   THEN [r2 EXCEPT !.FinalURL =
                            determineRedirectURL("http://u", r2.HTTPRedirectURL)]
                   ELSE r2
         IN [err |-> FALSE, r |-> r3]
    ELSE IF scheme = "http"
    THEN LET r1 == checkProtocol("http://u", NewURLReachability, TRUE, hp)
         IN [err |-> FALSE,
             r |-> [r1 EXCEPT !.FinalURL =
                       determineRedirectURL("http://u", r1.HTTPRedirectURL)]]
    ELSE IF scheme = "https"
    THEN LET r1 == checkProtocol("https://u", NewURLReachability, FALSE, hsp)
         IN [err |-> FALSE,
             r |-> [r1 EXCEPT !.FinalURL =
                       determineRedirectURL("https://u", r1.HTTPSRedirectURL)]]
    ELSE [err |-> TRUE, r |-> NewURLReachability]

HasSuccessfulResponseAnyStatus(r) == r.HTTPAvailable \/ r.HTTPSAvailable
HasSuccessfulResponse(r) ==
    (r.HTTPAvailable /\ r.HTTPStatusCode = StatusOK) \/
    (r.HTTPSAvailable /\ r.HTTPSStatusCode = StatusOK)

(***************************************************************************)
(* parallel.go: ProgressTracker                                            *)
(***************************************************************************)
NewProgressTracker(total) ==
    [total |-> total, processed |-> 0, scanned |-> 0, excluded |-> 0,
     skipped |-> 0, errors |-> 0]

IncrementProcessedTwice(t) == [t EXCEPT !.processed = @ + 2]
IncrementProcessed(t) == [t EXCEPT !.processed = @ + 1]
IncrementScanned(t) == [t EXCEPT !.scanned = @ + 1]
IncrementExcludedNotProcessed(t) ==
    [t EXCEPT !.excluded = @ + 1, !.processed = @ - 1]
IncrementExcluded(t) == [t EXCEPT !.excluded = @ + 1]
IncrementSkipped(t) == [t EXCEPT !.skipped = @ + 1]
IncrementErrorsForgotten(t) == t
IncrementErrors(t) == [t EXCEPT !.errors = @ + 1]

(***************************************************************************)
(* parallel.go: processURL after IncrementProcessed.  excl is the verdict  *)
(* of shouldExcludeURL, cr the outcome of checkURLReachability.  Yields    *)
(* the counter that is incremented and the URLResult that is returned (its *)
(* Job is filled in by the caller; Reachability is kept as "nil", "none"   *)
(* (a record with no protocol available) or "some").                       *)
(***************************************************************************)
URLResult(job) ==
    [Job |-> job, Excluded |-> FALSE, Skipped |-> FALSE, Error |-> FALSE,
     Reachability |-> "nil", Scanned |-> FALSE]

processURLUnreachableUncounted(excl, cr) ==
    IF excl
    THEN [counter |-> "excluded",
          result |-> [URLResult(-1) EXCEPT !.Excluded = TRUE]]
    ELSE IF cr.err
    THEN [counter |-> "errors",
          result |-> [URLResult(-1) EXCEPT !.Error = TRUE]]
    ELSE IF ~cr.r.HTTPAvailable /\ ~cr.r.HTTPSAvailable
    THEN [counter |-> "none",
          result |-> [URLResult(-1) EXCEPT !.Reachability = "none"]]
    ELSE IF ~HasSuccessfulResponse(cr.r)
    THEN [counter |-> "skipped",
          result |-> [URLResult(-1) EXCEPT !.Reachability = "some",
                                           !.Skipped = TRUE]]
    ELSE [counter |-> "scanned",
          result |-> [URLResult(-1) EXCEPT !.Reachability = "some",
                                           !.Scanned = TRUE]]

processURL(excl, cr) ==
    IF excl
    THEN [counter |-> "excluded",
          result |-> [URLResult(-1) EXCEPT !.Excluded = TRUE]]
    ELSE IF cr.err
    THEN [counter |-> "errors",
          result |-> [URLResult(-1) EXCEPT !.Error = TRUE]]
    ELSE IF ~cr.r.HTTPAvailable /\ ~cr.r.HTTPSAvailable
    THEN [counter |-> "errors",
          result |-> [URLResult(-1) EXCEPT !.Reachability = "none"]]
    ELSE IF ~HasSuccessfulResponse(cr.r)
    THEN [counter |-> "skipped",
          result |-> [URLResult(-1) EXCEPT !.Reachability = "some",
                                           !.Skipped = TRUE]]
    ELSE [counter |-> "scanned",
          result |-> [URLResult(-1) EXCEPT !.Reachability = "some",
                                           !.Scanned = TRUE]]

\* the tracker after the Increment... call processURL makes for a bucket
Increment(t, counter) ==
    CASE counter = "excluded" -> IncrementExcluded(t)
      [] counter = "errors" -> IncrementErrors(t)
      [] counter = "skipped" -> IncrementSkipped(t)
      [] counter = "scanned" -> IncrementScanned(t)
      [] OTHER -> t

\* every outcome checkURLReachability has, over all input schemes and all
\* outcomes of the two probes
ReachabilityOutcomes ==
    {checkURLReachability(scheme, hp, hsp) :
        scheme \in Schemes, hp \in ProbeOutcomes, hsp \in ProbeOutcomes}

\* every way processURL ends, over all exclusion verdicts and all
\* reachability outcomes
ProcessURLOutcomes ==
    {processURL(excl, cr) : excl \in BOOLEAN, cr \in ReachabilityOutcomes}

(***************************************************************************)
(* Strings whose characters the code inspects (names, file names) are      *)
(* sequences of one-character strings.                                     *)
(***************************************************************************)
UpperChars == <<"A", "B", "C", "D", "E", "F", "G", "H", "I", "J", "K", "L", "M", "N", "O", "P", "Q", "R", "S", "T", "U", "V", "W", "X", "Y", "Z">>
LowerChars == <<"a", "b", "c", "d", "e", "f", "g", "h", "i", "j", "k", "l", "m", "n", "o", "p", "q", "r", "s", "t", "u", "v", "w", "x", "y", "z">>
DigitChars == <<"0", "1", "2", "3", "4", "5", "6", "7", "8", "9">>
CharRange(f) == {f[i] : i \in DOMAIN f}

\* strings.ToLower
ToLowerChar(c) ==
    IF \E i \in DOMAIN UpperChars : UpperChars[i] = c
    THEN LowerChars[CHOOSE i \in DOMAIN UpperChars : UpperChars[i] = c]
    ELSE c
ToLower(str) == [i \in DOMAIN str |-> ToLowerChar(str[i])]

\* strings.ReplaceAll(str, old, new) for a non-empty old
RECURSIVE ReplaceAll(_, _, _)
ReplaceAll(str, old, new) ==
    IF Len(str) < Len(old) THEN str
    ELSE IF SubSeq(str, 1, Len(old)) = old
    THEN new \o ReplaceAll(SubSeq(str, Len(old) + 1, Len(str)), old, new)
    ELSE <<Head(str)>> \o ReplaceAll(Tail(str), old, new)

\* strings.LastIndex(str, c) for a one-character c, 1-based, 0 if absent
LastIndex(str, c) ==
    IF \E i \in DOMAIN str : str[i] = c
    THEN CHOOSE i \in DOMAIN str :
            str[i] = c /\ \A j \in DOMAIN str : str[j] = c => j <= i
    ELSE 0

\* regexp [^a-zA-Z0-9\-_] replaced by ""
RECURSIVE StripNonWord(_)
StripNonWord(str) ==
    IF str = <<>> THEN <<>>
    ELSE IF Head(str) \in CharRange(UpperChars) \cup CharRange(LowerChars)
                          \cup CharRange(DigitChars) \cup {"-", "_"}
    THEN <<Head(str)>> \o StripNonWord(Tail(str))
    ELSE StripNonWord(Tail(str))

\* the capture of ([^-]+): the characters up to the first "-"
RECURSIVE UpToDash(_)
UpToDash(str) ==
    IF str = <<>> \/ Head(str) = "-" THEN <<>>
    ELSE <<Head(str)>> \o UpToDash(Tail(str))

S_unknown == <<"u", "n", "k", "n", "o", "w", "n">>
S_jquery == <<"j", "q", "u", "e", "r", "y">>
S_react == <<"r", "e", "a", "c", "t">>
S_bootstrap == <<"b", "o", "o", "t", "s", "t", "r", "a", "p">>
S_angular == <<"a", "n", "g", "u", "l", "a", "r">>
S_vue == <<"v", "u", "e">>
S_lodash == <<"l", "o", "d", "a", "s", "h">>
S_moment == <<"m", "o", "m", "e", "n", "t">>
S_d3 == <<"d", "3">>
S_backbone == <<"b", "a", "c", "k", "b", "o", "n", "e">>
S_underscore == <<"u", "n", "d", "e", "r", "s", "c", "o", "r", "e">>
S_min == <<".", "m", "i", "n">>
S_js == <<".", "j", "s">>
S_prod == <<".", "p", "r", "o", "d">>
S_production == <<".", "p", "r", "o", "d", "u", "c", "t", "i", "o", "n">>

(***************************************************************************)
(* LibraryInfo; NoInfo stands for a nil *LibraryInfo.                      *)
(***************************************************************************)
NoInfo == [Name |-> <<>>, Version |-> "", Checksum |-> "", Method |-> "nil"]
LibraryInfo(name, version, checksum, method) ==
    [Name |-> name, Version |-> version, Checksum |-> checksum,
     Method |-> method]

(***************************************************************************)
(* Strategy 1: identifyLibraryFromURL.  A script URL is kept as the parts  *)
(* the CDN regular expressions look at: the host, the directories between  *)
(* the host and the package segment, the package segment, how a version    *)
(* follows it ("/" next segment, "@" same segment, "" nothing follows),    *)
(* the version, and the last path segment (the file name).                 *)
(***************************************************************************)
cdnPatterns == <<
    [host |-> "cdnjs.cloudflare.com", prefix |-> "ajax/libs", sep |-> "/",
     groups |-> 2, version |-> ""],
    [host |-> "unpkg.com", prefix |-> "", sep |-> "@",
     groups |-> 2, version |-> ""],
    [host |-> "unpkg.com", prefix |-> "", sep |-> "/",
     groups |-> 1, version |-> "latest"],
    [host |-> "cdn.jsdelivr.net", prefix |-> "npm", sep |-> "@",
     groups |-> 2, version |-> ""],
    [host |-> "cdn.jsdelivr.net", prefix |-> "npm", sep |-> "/",
     groups |-> 1, version |-> "latest"],
    [host |-> "googleapis.com", prefix |-> "ajax/libs", sep |-> "/",
     groups |-> 2, version |-> ""],
    [host |-> "github.githubassets.com", prefix |-> "assets", sep |-> "-",
     groups |-> 1, version |-> "github-hosted"] >>

\* pattern.Pattern.FindStringSubmatch(scriptURL) != nil
PatternMatches(pat, u) ==
    /\ u.host = pat.host
    /\ u.prefix = pat.prefix
    /\ u.pkg # <<>>
    /\ IF pat.sep = "-" THEN UpToDash(u.pkg) # <<>>
       ELSE /\ u.sep = pat.sep
            /\ pat.groups = 2 => u.ver # ""

\* pattern.Extract(matches)
PatternExtract(pat, u) ==
    IF pat.sep = "-"
    THEN [name |-> ReplaceAll(UpToDash(u.pkg), <<"_">>, <<"-">>),
          version |-> pat.version]
    ELSE [name |-> u.pkg,
          version |-> IF pat.groups = 2 THEN u.ver ELSE pat.version]

identifyLibraryFromURL(scriptURL) ==
    IF \E k \in DOMAIN cdnPatterns : PatternMatches(cdnPatterns[k], scriptURL)
    THEN LET k == CHOOSE i \in DOMAIN cdnPatterns :
                     /\ PatternMatches(cdnPatterns[i], scriptURL)
                     /\ \A j \in 1..(i - 1) :
                            ~PatternMatches(cdnPatterns[j], scriptURL)
             ex == PatternExtract(cdnPatterns[k], scriptURL)
             name == ReplaceAll(ReplaceAll(ex.name, S_min, <<>>),
                                <<"_">>, <<"-">>)
         IN LibraryInfo(name, ex.version, "", "url-pattern")
    ELSE NoInfo

(***************************************************************************)
(* extractNameFromURL                                                      *)
(***************************************************************************)
extractNameFromURL(scriptURL) ==
    LET filename == scriptURL.file
        idx == LastIndex(filename, ".")
        f1 == IF idx # 0 THEN SubSeq(filename, 1, idx - 1) ELSE filename
        f2 == ReplaceAll(f1, S_min, <<>>)
        f3 == ReplaceAll(f2, S_prod, <<>>)
        f4 == ReplaceAll(f3, S_production, <<>>)
        f5 == StripNonWord(f4)
    IN IF f5 = <<>> THEN S_unknown ELSE ToLower(f5)

(***************************************************************************)
(* Strategy 2: identifyLibraryFromCode.  The JavaScript text is kept as    *)
(* what the regular expressions find in it: the index of the first         *)
(* contextPatterns entry that matches its header (0: none) with the        *)
(* version captured, the index of the first versionPatterns entry that     *)
(* matches (0: none) with its captures, and the index of the first         *)
(* signatures entry that matches (0: none) with the version its version    *)
(* pattern captures ("" if it does not match).                             *)
(***************************************************************************)
contextPatternNames == << S_jquery, S_react, S_bootstrap, S_angular, S_vue,
                          S_lodash, S_moment, S_d3, S_backbone, S_underscore >>

signatureNames == << S_jquery, S_react, S_angular, S_vue, S_bootstrap,
                     S_lodash, S_underscore, S_moment, S_d3 >>

\* number of versionPatterns entries that capture a name and a version
NamedVersionPatterns == 2

cleanLibraryName(name) ==
    LET n1 == ToLower(name)
        n2 == ReplaceAll(n1, S_js, <<>>)
        n3 == ReplaceAll(n2, S_min, <<>>)
        n4 == ReplaceAll(n3, <<"_">>, <<"-">>)
    IN CASE n4 \in {S_jquery \o <<"-", "u", "i">>, S_jquery \o <<"u", "i">>} -> S_jquery
         [] n4 = S_react \o <<"j", "s">> -> S_react
         [] n4 = S_angular \o <<"j", "s">> -> S_angular
         [] n4 = S_vue \o <<"j", "s">> -> S_vue
         [] n4 = S_moment \o <<"j", "s">> -> S_moment
         [] n4 = S_d3 \o <<"j", "s">> -> S_d3
         [] n4 = S_backbone \o <<"j", "s">> -> S_backbone
         [] n4 = S_underscore \o <<"j", "s">> -> S_underscore
         [] OTHER -> n4

analyzeCodeContext(jsCode, scriptURL) ==
    IF jsCode.context # 0 /\ jsCode.contextVersion # ""
    THEN LibraryInfo(cleanLibraryName(contextPatternNames[jsCode.context]),
                     jsCode.contextVersion, "", "context-analysis")
    ELSE NoInfo

detectLibrarySignatures(jsCode, scriptURL) ==
    IF jsCode.signature # 0
    THEN LibraryInfo(signatureNames[jsCode.signature],
                     IF jsCode.signatureVersion # ""
                     THEN jsCode.signatureVersion ELSE "unknown",
                     "", "signature-analysis")
    ELSE NoInfo

identifyLibraryFromCode(jsCode, scriptURL) ==
    IF analyzeCodeContext(jsCode, scriptURL) # NoInfo
    THEN analyzeCodeContext(jsCode, scriptURL)
    ELSE IF jsCode.comment # 0
    THEN IF jsCode.comment <= NamedVersionPatterns
         THEN LibraryInfo(cleanLibraryName(ToLower(jsCode.commentName)),
                          jsCode.commentVersion, "", "code-analysis")
         ELSE LibraryInfo(extractNameFromURL(scriptURL),
                          jsCode.commentVersion, "", "code-analysis")
    ELSE detectLibrarySignatures(jsCode, scriptURL)

(***************************************************************************)
(* Strategy 3 sources                                                      *)
(***************************************************************************)
\* queryKnownChecksums: the built-in table (the entries for the checksums
\* of the model)
ChecksumJQuery371 ==
    "fc9a93dd241f6b045cbff0481cf4e1901becd0e12fb45166a8f17f95823f0b1a"
ChecksumInFile ==
    "9f86d081884c7d659a2feaa0c55ad015a3bf4f1b2b0b822cd15d6c15b0f00a08"
ChecksumOther ==
    "e3b0c44298fc1c149afbf4c8996fb92427ae41e4649b934ca495991b7852b855"

queryKnownChecksums(checksum) ==
    IF checksum = ChecksumJQuery371
    THEN LibraryInfo(S_jquery, "3.7.1", ChecksumJQuery371, "checksum-db")
    ELSE NoInfo

\* A source of entries.db (the local file, or the body of the download):
\* whether it can be opened, and its lines.  A line is given by whether it
\* begins with '#' once trimmed, by whether scanner.Scan() fails on it (a
\* line longer than the buffer of the bufio.Scanner, or a read error at
\* that place), and by its parts between the '|'s, each a text with `pad`
\* blanks around it.
Part(pad, text) == [pad |-> pad, text |-> text]
Line(hash, long, parts) == [hash |-> hash, long |-> long, parts |-> parts]
SourceFile(lines) == [present |-> TRUE, lines |-> lines]
SourceMissing == [present |-> FALSE, lines |-> <<>>]

\* the lines scanner.Scan() delivers before it returns false
RECURSIVE Scanned(_)
Scanned(lines) ==
    IF lines = <<>> \/ Head(lines).long THEN <<>>
    ELSE <<Head(lines)>> \o Scanned(Tail(lines))
\* scanner.Err() != nil after the loop
ScanError(lines) == \E i \in 1..Len(lines) : lines[i].long

\* strings.TrimSpace of a part
TrimSpace(p) == p.text

\* strings.TrimSpace(scanner.Text()) == ""
lineIsEmpty(line) ==
    ~line.hash /\ Len(line.parts) = 1 /\ TrimSpace(line.parts[1]) = ""

FieldCount == 4
ChecksumLen == 64

\* fdb.entries is a map from checksum to *LibraryInfo
EmptyEntries == [k \in {} |-> NoInfo]
SetEntry(entries, k, info) ==
    [x \in DOMAIN entries \cup {k} |-> IF x = k THEN info ELSE entries[x]]

\* the scan loop of loadFileChecksumDB over the lines delivered
RECURSIVE loadLinesStopAtInvalid(_, _)
loadLinesStopAtInvalid(entries, lines) ==
    IF lines = <<>> THEN entries
    ELSE LET line == Head(lines)
             checksum == TrimSpace(line.parts[1])
         IN IF lineIsEmpty(line) \/ line.hash
            THEN loadLinesStopAtInvalid(entries, Tail(lines))
            ELSE IF Len(line.parts) # FieldCount THEN entries
            ELSE IF Len(checksum) # ChecksumLen THEN entries
            ELSE loadLinesStopAtInvalid(
                     SetEntry(entries, checksum,
                              LibraryInfo(TrimSpace(line.parts[2]),
                                          TrimSpace(line.parts[3]), checksum,
                                          TrimSpace(line.parts[4]))),
                     Tail(lines))
RECURSIVE loadLines(_, _)
loadLines(entries, lines) ==
    IF lines = <<>> THEN entries
    ELSE LET line == Head(lines)
             checksum == TrimSpace(line.parts[1])
         IN IF lineIsEmpty(line) \/ line.hash
            THEN loadLines(entries, Tail(lines))
            ELSE IF Len(line.parts) # FieldCount
            THEN loadLines(entries, Tail(lines))
            ELSE IF Len(checksum) # ChecksumLen
            THEN loadLines(entries, Tail(lines))
            ELSE loadLines(
                     SetEntry(entries, checksum,
                              LibraryInfo(TrimSpace(line.parts[2]),
                                          TrimSpace(line.parts[3]), checksum,
                                          TrimSpace(line.parts[4]))),
                     Tail(lines))

\* the reader loadFileChecksumDB ends up with: the download if useRemote
\* is set and the download succeeds, else the local file
dbReader(fdb, local, remote) ==
    IF fdb.useRemote /\ remote.present THEN remote ELSE local

\* loadFileChecksumDB: the FileChecksumDB it leaves behind
loadFileChecksumDB(fdb, local, remote) ==
    IF fdb.loaded THEN fdb
    ELSE LET reader == dbReader(fdb, local, remote)
         IN IF ~reader.present THEN [fdb EXCEPT !.loaded = TRUE]
            ELSE [fdb EXCEPT !.entries = loadLines(fdb.entries,
                                                   Scanned(reader.lines)),
                             !.loaded = ~ScanError(reader.lines)]

\* loadFileChecksumDB: whether it returns an error
loadFileChecksumDBError(fdb, local, remote) ==
    /\ ~fdb.loaded
    /\ dbReader(fdb, local, remote).present
    /\ ScanError(dbReader(fdb, local, remote).lines)

\* queryFileChecksumDB, the lazy load included
queryFileChecksumDBStoredMethod(fdb, local, remote, checksum) ==
    LET entries == loadFileChecksumDB(fdb, local, remote).entries
    IN IF loadFileChecksumDBError(fdb, local, remote) THEN NoInfo
       ELSE IF checksum \in DOMAIN entries THEN entries[checksum]
       ELSE NoInfo
queryFileChecksumDB(fdb, local, remote, checksum) ==
    LET entries == loadFileChecksumDB(fdb, local, remote).entries
    IN IF loadFileChecksumDBError(fdb, local, remote) THEN NoInfo
       ELSE IF checksum \in DOMAIN entries
       THEN LibraryInfo(entries[checksum].Name, entries[checksum].Version,
                        entries[checksum].Checksum, "file-db")
       ELSE NoInfo

\* queryCDNApis, the lazy load of the file database included
queryCDNApis(fdb, local, remote, checksum) ==
    IF queryFileChecksumDB(fdb, local, remote, checksum) # NoInfo
    THEN queryFileChecksumDB(fdb, local, remote, checksum)
    ELSE queryKnownChecksums(checksum)

\* what queryPublicDataGuru can return for a checksum: nil (request failed,
\* non-200, undecodable or empty result list) or the first package
PublicDataGuruOutcomes(checksum) ==
    {NoInfo, LibraryInfo(S_lodash, "4.17.21", "", "publicdata-api")}

\* what queryLocalDatabase can return: nil (no database, no row, error) or
\* the stored row
LocalDatabaseOutcomes(checksum) ==
    {NoInfo, LibraryInfo(S_react, "18.2.0", checksum, "local-db")}

(***************************************************************************)
(* identifyLibrary up to the call of identifyLibraryFromAPI: strategies 1  *)
(* and 2.  Yields the LibraryInfo returned (NoInfo: go on to strategy 3)   *)
(* and the strategies that were run.                                       *)
(***************************************************************************)
identifyLibraryCodeFirst(scriptURL, checksum, jsCode) ==
    IF identifyLibraryFromCode(jsCode, scriptURL) # NoInfo
    THEN [info |-> [identifyLibraryFromCode(jsCode, scriptURL)
                        EXCEPT !.Checksum = checksum],
          ran |-> {2}]
    ELSE IF identifyLibraryFromURL(scriptURL) # NoInfo
    THEN [info |-> [identifyLibraryFromURL(scriptURL)
                        EXCEPT !.Checksum = checksum],
          ran |-> {1, 2}]
    ELSE [info |-> NoInfo, ran |-> {1, 2}]

identifyLibrary(scriptURL, checksum, jsCode) ==
    IF identifyLibraryFromURL(scriptURL) # NoInfo
    THEN [info |-> [identifyLibraryFromURL(scriptURL)
                        EXCEPT !.Checksum = checksum],
          ran |-> {1}]
    ELSE IF identifyLibraryFromCode(jsCode, scriptURL) # NoInfo
    THEN [info |-> [identifyLibraryFromCode(jsCode, scriptURL)
                        EXCEPT !.Checksum = checksum],
          ran |-> {1, 2}]
    ELSE [info |-> NoInfo, ran |-> {1, 2}]

\* identifyLibrary after identifyLibraryFromAPI returned apiInfo
identifyLibraryFallbackNil(scriptURL, checksum, apiInfo) == apiInfo
identifyLibraryFallback(scriptURL, checksum, apiInfo) ==
    IF apiInfo # NoInfo THEN apiInfo
    ELSE LibraryInfo(extractNameFromURL(scriptURL), "unknown", checksum,
                     "unknown")

(***************************************************************************)
(* parallel.go: ProcessURLs                                                *)
(***************************************************************************)
\* "Validate worker count"
WorkerCountUnbounded(cfg, n) == n
WorkerCount(cfg, n) ==
    LET m == IF cfg <= 0 THEN 1 ELSE cfg
    IN IF m > n THEN n ELSE m

\* capacity of the results channel
ResultsCap(w) == w * 2

\* defer wg.Done()
WgDoneForgotten(c) == c
WgDone(c) == c - 1

\* "Check if we're done" of resultCollector
CollectorFinishedEarly(count, expectedCount) == count + 1 >= expectedCount
CollectorFinished(count, expectedCount) == count >= expectedCount

NoResult == URLResult(-1)
\* no page has been fetched
NoPage == [fetch |-> "none", scripts |-> <<>>]

(***************************************************************************)
(* Inputs of the identification: script URLs, JavaScript texts, checksums, *)
(* the local entries.db.                                                   *)
(***************************************************************************)
\* the goroutines that call identifyLibrary; calls of one goroutine follow
\* each other
Callers == {1}
Sources == {"api", "cdn", "db"}
Checksums == {ChecksumJQuery371, ChecksumInFile, ChecksumOther}

URLCdnjsJQuery ==
    [host |-> "cdnjs.cloudflare.com", prefix |-> "ajax/libs",
     pkg |-> S_jquery, sep |-> "/", ver |-> "3.6.0",
     file |-> S_jquery \o S_min \o S_js]
URLPlainApp ==
    [host |-> "example.com", prefix |-> "static", pkg |-> <<>>, sep |-> "",
     ver |-> "", file |-> <<"A", "p", "p">> \o S_min \o S_js]
URLNoFile ==
    [host |-> "example.com", prefix |-> "static", pkg |-> <<>>, sep |-> "",
     ver |-> "", file |-> <<>>]
\* https://cdnjs.cloudflare.com/ajax/libs/jQuery/3.6.0/jquery.min.js
URLCdnjsUpper ==
    [URLCdnjsJQuery EXCEPT !.pkg = <<"j", "Q", "u", "e", "r", "y">>]
ScriptURLs == {URLCdnjsJQuery, URLCdnjsUpper, URLPlainApp, URLNoFile}

CodeNothing ==
    [context |-> 0, contextVersion |-> "", comment |-> 0, commentName |-> <<>>,
     commentVersion |-> "", signature |-> 0, signatureVersion |-> ""]
\* "React v18.2.0" in the header, and the React signature
CodeReactHeader ==
    [CodeNothing EXCEPT !.context = 2, !.contextVersion = "18.2.0",
                        !.signature = 2]
\* "@version 1.2.3" only
CodeVersionComment ==
    [CodeNothing EXCEPT !.comment = 3, !.commentVersion = "1.2.3"]
\* ".modal" only: the bootstrap signature, which has no version pattern
CodeBootstrapSignature == [CodeNothing EXCEPT !.signature = 5]
JSCodes == {CodeNothing, CodeReactHeader, CodeVersionComment,
            CodeBootstrapSignature}

NoCall == [scriptURL |-> URLNoFile, jsCode |-> CodeNothing, checksum |-> ""]

\* lines of entries.db
LineVue ==
    Line(FALSE, FALSE, <<Part(0, ChecksumInFile), Part(0, S_vue),
                         Part(0, "3.3.4"), Part(0, "manual")>>)
LineJQuery ==
    Line(FALSE, FALSE, <<Part(0, ChecksumJQuery371), Part(0, S_jquery),
                         Part(0, "3.7.1"), Part(0, "manual")>>)
\* a line of more than 64 KiB, which the scanner refuses
LineLong ==
    Line(FALSE, TRUE, <<Part(0, ChecksumOther), Part(0, S_react),
                        Part(0, "18.2.0")>>)

\* the local entries.db: absent, present with two entries, or present with
\* a read error after its first line
EntriesDBMissing == SourceMissing
EntriesDBContent == SourceFile(<<LineVue, LineJQuery>>)
EntriesDBReadError == SourceFile(<<LineVue, LineLong>>)

\* the capacity of resultChan
ResultChanCap == 3

\* positions of a query goroutine
QIdle == [pc |-> "idle", info |-> NoInfo]
QRunning == [pc |-> "running", info |-> NoInfo]
QDone == [pc |-> "done", info |-> NoInfo]

\* no identifyLibrary call yet by any of the goroutines C
InitCallers(C) ==
    /\ ipc = [c \in C |-> "idle"]
    /\ iin = [c \in C |-> NoCall]
    /\ iret = [c \in C |-> NoInfo]
    /\ iran = [c \in C |-> {}]
    /\ iapi = [c \in C |-> NoInfo]
    /\ callsMade = 0
    /\ qpc = [c \in C |-> [q \in Sources |-> QIdle]]
    /\ resultChan = [c \in C |-> <<>>]
    /\ resultChanClosed = [c \in C |-> FALSE]
    /\ lookupCtxDone = [c \in C |-> FALSE]

InitIdentIdle ==
    /\ InitCallers(Callers)
    /\ checksumCache = [k \in Checksums |-> NoInfo]
    /\ fileChecksumDB = [entries |-> EmptyEntries, loaded |-> FALSE,
                         useRemote |-> FALSE]
    /\ apiQueries = [k \in Checksums |-> 0]

\* ProcessURLs not called
InitPPIdle ==
    /\ urls = 0 /\ cfgMaxWorkers = 1
    /\ pc = "start" /\ maxWorkers = 0 /\ submitted = 0 /\ retVal = "none"
    /\ wg = 0 /\ ctxDone = FALSE
    /\ jobs = <<>> /\ jobsClosed = FALSE
    /\ results = <<>> /\ resultsClosed = FALSE
    /\ collectorDone = FALSE
    /\ workers = EmptyBag
    /\ cpc = "notStarted" /\ processedCount = 0
    /\ tracker = NewProgressTracker(0)
    /\ dequeued = {} /\ dequeuedCount = 0 /\ sent = 0 /\ collected = {}
    /\ cancelEarly = FALSE
    /\ summaryShown = FALSE

\* no job followed in detail
NoJob == [excl |-> FALSE, scheme |-> ""]
InitJobIdle ==
    /\ useDB = FALSE /\ jtotal = 0 /\ jn = 0
    /\ jpc = "idle" /\ jin = NoJob
    /\ probes = <<>> /\ jrec = NewURLReachability /\ jerr = FALSE
    /\ jresult = NoResult /\ jscanURL = "" /\ jscripts = 0
    /\ jpage = NoPage /\ jscanResults = <<>>
    /\ verbose = FALSE /\ jout = <<>>
    /\ jstores = <<>>
    /\ jtracker = NewProgressTracker(0) /\ jt0 = NewProgressTracker(0)
    /\ jretVal = "none"

\* the NMAP scanner service at its first start: no batch, empty directories
InitNmIdle ==
    /\ nextID = 0
    /\ batch = [id \in 1..MaxBatches |->
                  [Status |-> "none", Progress |-> 0, Results |-> ""]]
    /\ batches = {}
    /\ batchesDir = [id \in 1..MaxBatches |->
                       [Status |-> "none", Progress |-> 0, Results |-> ""]]
    /\ resultsDir = {}
    /\ scanpc = [id \in 1..MaxBatches |-> "none"]
    /\ issued = {}
    /\ restarts = 0
    /\ lastResp = [req |-> "none", id |-> 0, code |-> 0,
                   body |-> [Status |-> "none", Progress |-> 0,
                             Results |-> ""]]

\* no query of the file checksum database on its own
NoQuery == [checksum |-> "", info |-> NoInfo, err |-> FALSE]
InitFdbIdle ==
    /\ fileDB = [entries |-> EmptyEntries, loaded |-> FALSE,
                 useRemote |-> FALSE]
    /\ localSrc = SourceMissing
    /\ remoteSrc = SourceMissing
    /\ dbReads = <<0>>
    /\ dbLast = NoQuery

Init ==
    /\ InitIdentIdle
    /\ entriesDB = EntriesDBMissing
    /\ InitJobIdle
    /\ InitNmIdle
    /\ InitFdbIdle
    /\ urls \in 0..MaxJobs
    /\ cfgMaxWorkers \in 0..MaxCfgWorkers
    /\ pc = "start"
    /\ maxWorkers = 0
    /\ submitted = 0
    /\ retVal = "none"
    /\ wg = 0
    /\ ctxDone = FALSE
    /\ jobs = <<>> /\ jobsClosed = FALSE
    /\ results = <<>> /\ resultsClosed = FALSE
    /\ collectorDone = FALSE
    /\ workers = EmptyBag
    /\ cpc = "notStarted" /\ processedCount = 0
    /\ tracker = NewProgressTracker(0)
    /\ dequeued = {} /\ dequeuedCount = 0 /\ sent = 0 /\ collected = {}
    /\ cancelEarly = FALSE
    /\ summaryShown = FALSE

\* The caller cancels the context (at any time, or never).
Cancel ==
    /\ ~ctxDone
    /\ ctxDone' = TRUE
    /\ cancelEarly' = (dequeuedCount < urls)
    /\ UNCHANGED <<urls, cfgMaxWorkers, pc, maxWorkers, submitted, retVal, wg,
                   jobs, jobsClosed, results, resultsClosed, collectorDone,
                   workers, cpc, processedCount, tracker, dequeued,
                   dequeuedCount, sent, collected, summaryShown>>
    /\ UNCHANGED notPP

\* a worker that waits in "for job := range jobs"
IdleWorker == [pc |-> "range", job |-> -1, result |-> NoResult]

\* ProcessURLs up to the start of the "Send jobs" loop: tracker, worker
\* count, channels, workers and collector started.
Start ==
    /\ pc = "start"
    /\ LET w == WorkerCount(cfgMaxWorkers, urls)
       IN /\ maxWorkers' = w
          /\ wg' = w
          /\ workers' = IF w > 0 THEN [x \in {IdleWorker} |-> w] ELSE EmptyBag
    /\ tracker' = NewProgressTracker(urls)
    /\ cpc' = "range"
    /\ pc' = "submit"
    /\ UNCHANGED <<urls, cfgMaxWorkers, submitted, retVal, ctxDone, jobs,
                   jobsClosed, results, resultsClosed, collectorDone,
                   processedCount, dequeued, dequeuedCount, sent, collected,
                   cancelEarly, summaryShown>>
    /\ UNCHANGED notPP

\* select case jobs <- URLJob{...}: the channel has capacity len(urls), so
\* the send is always ready, also when ctx.Done() is ready too.
SubmitJob ==
    /\ pc = "submit" /\ submitted < urls
    /\ jobs' = Append(jobs, submitted)
    /\ submitted' = submitted + 1
    /\ UNCHANGED <<urls, cfgMaxWorkers, pc, maxWorkers, retVal, wg, ctxDone,
                   jobsClosed, results, resultsClosed, collectorDone, workers,
                   cpc, processedCount, tracker, dequeued, dequeuedCount, sent,
                   collected, cancelEarly, summaryShown>>
    /\ UNCHANGED notPP

\* select case <-ctx.Done(): close(jobs); return ctx.Err()
SubmitCancelled ==
    /\ pc = "submit" /\ submitted < urls
    /\ ctxDone
    /\ jobsClosed' = TRUE
    /\ retVal' = "ctxErr"
    /\ pc' = "returned"
    /\ UNCHANGED <<urls, cfgMaxWorkers, maxWorkers, submitted, wg, ctxDone,
                   jobs, results, resultsClosed, collectorDone, workers, cpc,
                   processedCount, tracker, dequeued, dequeuedCount, sent,
                   collected, cancelEarly, summaryShown>>
    /\ UNCHANGED notPP

\* close(jobs) after the loop
CloseJobs ==
    /\ pc = "submit" /\ submitted = urls
    /\ jobsClosed' = TRUE
    /\ pc' = "wait"
    /\ UNCHANGED <<urls, cfgMaxWorkers, maxWorkers, submitted, retVal, wg,
                   ctxDone, jobs, results, resultsClosed, collectorDone,
                   workers, cpc, processedCount, tracker, dequeued,
                   dequeuedCount, sent, collected, cancelEarly, summaryShown>>
    /\ UNCHANGED notPP

\* close(results) without wg.Wait()
WaitWorkersNoWait ==
    /\ pc = "wait"
    /\ resultsClosed' = TRUE
    /\ pc' = "waitCollector"
    /\ UNCHANGED <<urls, cfgMaxWorkers, maxWorkers, submitted, retVal, wg,
                   ctxDone, jobs, jobsClosed, results, collectorDone, workers,
                   cpc, processedCount, tracker, dequeued, dequeuedCount, sent,
                   collected, cancelEarly, summaryShown>>
    /\ UNCHANGED notPP

\* wg.Wait(); close(results)
WaitWorkers ==
    /\ pc = "wait" /\ wg = 0
    /\ resultsClosed' = TRUE
    /\ pc' = "waitCollector"
    /\ UNCHANGED <<urls, cfgMaxWorkers, maxWorkers, submitted, retVal, wg,
                   ctxDone, jobs, jobsClosed, results, collectorDone, workers,
                   cpc, processedCount, tracker, dequeued, dequeuedCount, sent,
                   collected, cancelEarly, summaryShown>>
    /\ UNCHANGED notPP

\* <-collectorDone; pp.displayFinalSummary(); return nil
Finish ==
    /\ pc = "waitCollector" /\ collectorDone
    /\ summaryShown' = TRUE
    /\ retVal' = "nil"
    /\ pc' = "returned"
    /\ UNCHANGED <<urls, cfgMaxWorkers, maxWorkers, submitted, wg, ctxDone,
                   jobs, jobsClosed, results, resultsClosed, collectorDone,
                   workers, cpc, processedCount, tracker, dequeued,
                   dequeuedCount, sent, collected, cancelEarly>>
    /\ UNCHANGED notPP

(***************************************************************************)
(* parallel.go: urlWorker.  The worker goroutines have no identity in the  *)
(* code; a step takes one worker in state ws to the state ws2.             *)
(***************************************************************************)
WorkerStates == BagToSet(workers)
WorkerGoes(ws, ws2) ==
    workers' = (workers (-) SetToBag({ws})) (+) SetToBag({ws2})

\* for job := range jobs  -- a job is received
WorkerRecv(ws) ==
    /\ ws.pc = "range" /\ jobs # <<>>
    /\ WorkerGoes(ws, [ws EXCEPT !.pc = "ctxCheck", !.job = Head(jobs)])
    /\ jobs' = Tail(jobs)
    /\ dequeued' = dequeued \cup {Head(jobs)}
    /\ dequeuedCount' = dequeuedCount + 1
    /\ UNCHANGED <<urls, cfgMaxWorkers, pc, maxWorkers, submitted, retVal, wg,
                   ctxDone, jobsClosed, results, resultsClosed, collectorDone,
                   cpc, processedCount, tracker, sent, collected, cancelEarly,
                   summaryShown>>
    /\ UNCHANGED notPP

\* for job := range jobs  -- the channel is closed and drained
WorkerJobsClosed(ws) ==
    /\ ws.pc = "range" /\ jobs = <<>> /\ jobsClosed
    /\ WorkerGoes(ws, [ws EXCEPT !.pc = "exited"])
    /\ wg' = WgDone(wg)
    /\ UNCHANGED <<urls, cfgMaxWorkers, pc, maxWorkers, submitted, retVal,
                   ctxDone, jobs, jobsClosed, results, resultsClosed,
                   collectorDone, cpc, processedCount, tracker, dequeued,
                   dequeuedCount, sent, collected, cancelEarly, summaryShown>>
    /\ UNCHANGED notPP

\* select { case <-ctx.Done(): return; default: }
WorkerCtxCheck(ws) ==
    /\ ws.pc = "ctxCheck"
    /\ IF ctxDone
       THEN /\ WorkerGoes(ws, [ws EXCEPT !.pc = "exited", !.job = -1])
            /\ wg' = WgDone(wg)
       ELSE /\ WorkerGoes(ws, [ws EXCEPT !.pc = "processURL"])
            /\ UNCHANGED wg
    /\ UNCHANGED <<urls, cfgMaxWorkers, pc, maxWorkers, submitted, retVal,
                   ctxDone, jobs, jobsClosed, results, resultsClosed,
                   collectorDone, cpc, processedCount, tracker, dequeued,
                   dequeuedCount, sent, collected, cancelEarly, summaryShown>>
    /\ UNCHANGED notPP

\* processURL: pp.tracker.IncrementProcessed()
WorkerIncrementProcessed(ws) ==
    /\ ws.pc = "processURL"
    /\ tracker' = IncrementProcessed(tracker)
    /\ WorkerGoes(ws, [ws EXCEPT !.pc = "classify"])
    /\ UNCHANGED <<urls, cfgMaxWorkers, pc, maxWorkers, submitted, retVal, wg,
                   ctxDone, jobs, jobsClosed, results, resultsClosed,
                   collectorDone, cpc, processedCount, dequeued,
                   dequeuedCount, sent, collected, cancelEarly, summaryShown>>
    /\ UNCHANGED notPP

\* processURL: the rest, for every exclusion verdict, input scheme and
\* probe outcome
WorkerClassify(ws) ==
    /\ ws.pc = "classify"
    /\ \E out \in ProcessURLOutcomes :
          /\ tracker' = Increment(tracker, out.counter)
          /\ WorkerGoes(ws, [ws EXCEPT !.pc = "send",
                                !.result = [out.result EXCEPT !.Job = ws.job]])
    /\ UNCHANGED <<urls, cfgMaxWorkers, pc, maxWorkers, submitted, retVal, wg,
                   ctxDone, jobs, jobsClosed, results, resultsClosed,
                   collectorDone, cpc, processedCount, dequeued,
                   dequeuedCount, sent, collected, cancelEarly, summaryShown>>
    /\ UNCHANGED notPP

\* select case results <- result (ready while the buffer has room, whether
\* or not ctx.Done() is ready as well), then the next iteration
WorkerSend(ws) ==
    /\ ws.pc = "send"
    /\ Len(results) < ResultsCap(maxWorkers)
    /\ results' = Append(results, ws.result)
    /\ sent' = sent + 1
    /\ WorkerGoes(ws, IdleWorker)
    /\ UNCHANGED <<urls, cfgMaxWorkers, pc, maxWorkers, submitted, retVal, wg,
                   ctxDone, jobs, jobsClosed, resultsClosed, collectorDone,
                   cpc, processedCount, tracker, dequeued, dequeuedCount,
                   collected, cancelEarly, summaryShown>>
    /\ UNCHANGED notPP

\* select case <-ctx.Done(): return
WorkerSendCancelled(ws) ==
    /\ ws.pc = "send"
    /\ ctxDone
    /\ WorkerGoes(ws, [IdleWorker EXCEPT !.pc = "exited"])
    /\ wg' = WgDone(wg)
    /\ UNCHANGED <<urls, cfgMaxWorkers, pc, maxWorkers, submitted, retVal,
                   ctxDone, jobs, jobsClosed, results, resultsClosed,
                   collectorDone, cpc, processedCount, tracker, dequeued,
                   dequeuedCount, sent, collected, cancelEarly, summaryShown>>
    /\ UNCHANGED notPP

(***************************************************************************)
(* parallel.go: resultCollector                                            *)
(***************************************************************************)
\* one iteration of "for result := range results", up to the break
CollectorRecv ==
    /\ cpc = "range" /\ results # <<>>
    /\ results' = Tail(results)
    /\ processedCount' = processedCount + 1
    /\ collected' = collected \cup {Head(results).Job}
    /\ IF CollectorFinished(processedCount + 1, urls)
       THEN cpc' = "done" /\ collectorDone' = TRUE
       ELSE UNCHANGED <<cpc, collectorDone>>
    /\ UNCHANGED <<urls, cfgMaxWorkers, pc, maxWorkers, submitted, retVal, wg,
                   ctxDone, jobs, jobsClosed, resultsClosed, workers, tracker,
                   dequeued, dequeuedCount, sent, cancelEarly, summaryShown>>
    /\ UNCHANGED notPP

\* the range loop ends on the closed, drained channel; defer close(done)
CollectorClosed ==
    /\ cpc = "range" /\ results = <<>> /\ resultsClosed
    /\ cpc' = "done"
    /\ collectorDone' = TRUE
    /\ UNCHANGED <<urls, cfgMaxWorkers, pc, maxWorkers, submitted, retVal, wg,
                   ctxDone, jobs, jobsClosed, results, resultsClosed, workers,
                   processedCount, tracker, dequeued, dequeuedCount, sent,
                   collected, cancelEarly, summaryShown>>
    /\ UNCHANGED notPP

(***************************************************************************)
(* identifyLibrary and identifyLibraryFromAPI                              *)
(***************************************************************************)
\* identifyLibrary is called (for a script, by whichever worker scans the
\* page) and runs strategies 1 and 2
IdentifyCall(c, u, code, k) ==
    /\ ipc[c] = "idle"
    /\ callsMade < MaxCalls
    /\ callsMade' = callsMade + 1
    /\ LET r == identifyLibrary(u, k, code)
       IN /\ iin' = [iin EXCEPT ![c] =
                        [scriptURL |-> u, jsCode |-> code, checksum |-> k]]
          /\ iran' = [iran EXCEPT ![c] = r.ran]
          /\ iret' = [iret EXCEPT ![c] = r.info]
          /\ ipc' = [ipc EXCEPT ![c] =
                        IF r.info # NoInfo THEN "done" ELSE "lookup"]
    /\ UNCHANGED <<iapi, qpc, resultChan, resultChanClosed, lookupCtxDone,
                   checksumCache, fileChecksumDB, entriesDB, apiQueries>>
    /\ UNCHANGED notId

Identify(c) ==
    \E u \in ScriptURLs, code \in JSCodes, k \in Checksums :
        IdentifyCall(c, u, code, k)

\* identifyLibraryFromAPI: the cache check and, on a miss, the launch of the
\* three query goroutines and of the goroutine that closes resultChan
LookupStart(c) ==
    /\ ipc[c] = "lookup"
    /\ iran' = [iran EXCEPT ![c] = @ \cup {3}]
    /\ IF checksumCache[iin[c].checksum] # NoInfo
       THEN /\ iapi' = [iapi EXCEPT ![c] = checksumCache[iin[c].checksum]]
            /\ ipc' = [ipc EXCEPT ![c] = "returned"]
            /\ UNCHANGED qpc
       ELSE /\ qpc' = [qpc EXCEPT ![c] = [q \in Sources |-> QRunning]]
            /\ ipc' = [ipc EXCEPT ![c] = "select"]
            /\ UNCHANGED iapi
    /\ UNCHANGED <<iin, iret, callsMade, resultChan, resultChanClosed, lookupCtxDone,
                   checksumCache, fileChecksumDB, entriesDB, apiQueries>>
    /\ UNCHANGED notId

\* the query of goroutine q returned `info`: with nil the goroutine is
\* over, else it goes on to the select that sends info
QueryReturned(c, q, info) ==
    qpc' = [qpc EXCEPT ![c][q] =
               IF info = NoInfo THEN QDone
               ELSE [pc |-> "send", info |-> info]]

\* goroutine "API 1": queryPublicDataGuru
QueryPublicDataGuru(c) ==
    /\ qpc[c]["api"].pc = "running"
    /\ apiQueries' = [apiQueries EXCEPT ![iin[c].checksum] = @ + 1]
    /\ \E info \in PublicDataGuruOutcomes(iin[c].checksum) :
          QueryReturned(c, "api", info)
    /\ UNCHANGED <<ipc, iin, iret, iran, iapi, callsMade, resultChan,
                   resultChanClosed, lookupCtxDone,
                   checksumCache, fileChecksumDB, entriesDB>>
    /\ UNCHANGED notId

\* goroutine "API 2": queryCDNApis, with the lazy load of the file database
QueryCDNApis(c) ==
    /\ qpc[c]["cdn"].pc = "running"
    /\ fileChecksumDB' = loadFileChecksumDB(fileChecksumDB, entriesDB,
                                            SourceMissing)
    /\ QueryReturned(c, "cdn", queryCDNApis(fileChecksumDB, entriesDB,
                                            SourceMissing, iin[c].checksum))
    /\ UNCHANGED <<ipc, iin, iret, iran, iapi, callsMade, resultChan,
                   resultChanClosed, lookupCtxDone,
                   checksumCache, entriesDB, apiQueries>>
    /\ UNCHANGED notId

\* goroutine "API 3": queryLocalDatabase
QueryLocalDatabase(c) ==
    /\ qpc[c]["db"].pc = "running"
    /\ \E info \in LocalDatabaseOutcomes(iin[c].checksum) :
          QueryReturned(c, "db", info)
    /\ UNCHANGED <<ipc, iin, iret, iran, iapi, callsMade, resultChan,
                   resultChanClosed, lookupCtxDone,
                   checksumCache, fileChecksumDB, entriesDB, apiQueries>>
    /\ UNCHANGED notId

\* select case resultChan <- info of goroutine q: ready while the buffer
\* has room
SendResult(c, q) ==
    /\ qpc[c][q].pc = "send"
    /\ Len(resultChan[c]) < ResultChanCap
    /\ resultChan' = [resultChan EXCEPT ![c] = Append(@, qpc[c][q].info)]
    /\ qpc' = [qpc EXCEPT ![c][q] = QDone]
    /\ UNCHANGED <<ipc, iin, iret, iran, iapi, callsMade, resultChanClosed,
                   lookupCtxDone, checksumCache, fileChecksumDB, entriesDB,
                   apiQueries>>
    /\ UNCHANGED notId

\* select case <-ctx.Done() of goroutine q: the result is dropped
SendCancelled(c, q) ==
    /\ qpc[c][q].pc = "send"
    /\ lookupCtxDone[c]
    /\ qpc' = [qpc EXCEPT ![c][q] = QDone]
    /\ UNCHANGED <<ipc, iin, iret, iran, iapi, callsMade, resultChan,
                   resultChanClosed, lookupCtxDone, checksumCache,
                   fileChecksumDB, entriesDB, apiQueries>>
    /\ UNCHANGED notId

\* wg.Wait() returns: every query goroutine has run its deferred wg.Done()
WgWaitAnyDone(c) == \E q \in Sources : qpc[c][q].pc = "done"
WgWait(c) == \A q \in Sources : qpc[c][q].pc = "done"

\* go func() { wg.Wait(); close(resultChan) }()
CloseResultChan(c) ==
    /\ WgWait(c)
    /\ ~resultChanClosed[c]
    /\ resultChanClosed' = [resultChanClosed EXCEPT ![c] = TRUE]
    /\ UNCHANGED <<ipc, iin, iret, iran, iapi, callsMade, qpc, resultChan, lookupCtxDone,
                   checksumCache, fileChecksumDB, entriesDB, apiQueries>>
    /\ UNCHANGED notId

\* the 10-second deadline of the lookup context passes
LookupDeadline(c) ==
    /\ ipc[c] = "select" /\ ~lookupCtxDone[c]
    /\ lookupCtxDone' = [lookupCtxDone EXCEPT ![c] = TRUE]
    /\ UNCHANGED <<ipc, iin, iret, iran, iapi, callsMade, qpc, resultChan, resultChanClosed,
                   checksumCache, fileChecksumDB, entriesDB, apiQueries>>
    /\ UNCHANGED notId

\* identifyLibraryFromAPI returns apiInfo (defer cancel())
LookupReturn(c, apiInfo) ==
    /\ iapi' = [iapi EXCEPT ![c] = apiInfo]
    /\ ipc' = [ipc EXCEPT ![c] = "returned"]
    /\ lookupCtxDone' = [lookupCtxDone EXCEPT ![c] = TRUE]

\* result := <-resultChan on a channel that holds results: the oldest
ReceiveNewest(ch) == ch[Len(ch)]
Receive(ch) == Head(ch)

\* select case result := <-resultChan with a result in the buffer
SelectResult(c) ==
    /\ ipc[c] = "select" /\ resultChan[c] # <<>>
    /\ resultChan' = [resultChan EXCEPT ![c] = Tail(@)]
    /\ checksumCache' = [checksumCache EXCEPT ![iin[c].checksum] =
                            Receive(resultChan[c])]
    /\ LookupReturn(c, Receive(resultChan[c]))
    /\ UNCHANGED <<iin, iret, iran, callsMade, qpc, resultChanClosed, fileChecksumDB,
                   entriesDB, apiQueries>>
    /\ UNCHANGED notId

\* select case result := <-resultChan on the closed, empty channel: nil
SelectClosed(c) ==
    /\ ipc[c] = "select" /\ resultChan[c] = <<>> /\ resultChanClosed[c]
    /\ LookupReturn(c, NoInfo)
    /\ UNCHANGED <<iin, iret, iran, callsMade, qpc, resultChan, resultChanClosed,
                   checksumCache, fileChecksumDB, entriesDB, apiQueries>>
    /\ UNCHANGED notId

\* select case <-ctx.Done(): return nil
SelectDeadlineMissing(c) ==
    /\ FALSE
    /\ UNCHANGED vars
SelectDeadline(c) ==
    /\ ipc[c] = "select" /\ lookupCtxDone[c]
    /\ LookupReturn(c, NoInfo)
    /\ UNCHANGED <<iin, iret, iran, callsMade, qpc, resultChan, resultChanClosed,
                   checksumCache, fileChecksumDB, entriesDB, apiQueries>>
    /\ UNCHANGED notId

\* identifyLibrary, with what identifyLibraryFromAPI returned: that result,
\* or the fallback record
IdentifyReturn(c) ==
    /\ ipc[c] = "returned"
    /\ iret' = [iret EXCEPT ![c] =
                   identifyLibraryFallback(iin[c].scriptURL, iin[c].checksum,
                                           iapi[c])]
    /\ ipc' = [ipc EXCEPT ![c] = "done"]
    /\ UNCHANGED <<iin, iran, iapi, callsMade, qpc, resultChan,
                   resultChanClosed, lookupCtxDone, checksumCache,
                   fileChecksumDB, entriesDB, apiQueries>>
    /\ UNCHANGED notId

\* the caller has its result and the goroutines of the lookup are gone:
\* the caller is free for its next call
CallerProceeds(c) ==
    /\ ipc[c] = "done"
    /\ \/ \A q \in Sources : qpc[c][q].pc = "idle"
       \/ resultChanClosed[c]
    /\ ipc' = [ipc EXCEPT ![c] = "idle"]
    /\ iin' = [iin EXCEPT ![c] = NoCall]
    /\ iret' = [iret EXCEPT ![c] = NoInfo]
    /\ iran' = [iran EXCEPT ![c] = {}]
    /\ iapi' = [iapi EXCEPT ![c] = NoInfo]
    /\ qpc' = [qpc EXCEPT ![c] = [q \in Sources |-> QIdle]]
    /\ resultChan' = [resultChan EXCEPT ![c] = <<>>]
    /\ resultChanClosed' = [resultChanClosed EXCEPT ![c] = FALSE]
    /\ lookupCtxDone' = [lookupCtxDone EXCEPT ![c] = FALSE]
    /\ UNCHANGED <<callsMade, checksumCache, fileChecksumDB, entriesDB,
                   apiQueries>>
    /\ UNCHANGED notId

InitIdent ==
    /\ InitIdentIdle
    /\ entriesDB \in {EntriesDBMissing, EntriesDBContent, EntriesDBReadError}
    /\ InitPPIdle
    /\ InitJobIdle
    /\ InitNmIdle
    /\ InitFdbIdle

NextIdent ==
    \/ \E c \in Callers : Identify(c)
    \/ \E c \in Callers : LookupStart(c)
    \/ \E c \in Callers : QueryPublicDataGuru(c)
    \/ \E c \in Callers : QueryCDNApis(c)
    \/ \E c \in Callers : QueryLocalDatabase(c)
    \/ \E c \in Callers, q \in Sources : SendResult(c, q)
    \/ \E c \in Callers, q \in Sources : SendCancelled(c, q)
    \/ \E c \in Callers : CloseResultChan(c)
    \/ \E c \in Callers : LookupDeadline(c)
    \/ \E c \in Callers : SelectResult(c)
    \/ \E c \in Callers : SelectClosed(c)
    \/ \E c \in Callers : SelectDeadline(c)
    \/ \E c \in Callers : IdentifyReturn(c)
    \/ \E c \in Callers : CallerProceeds(c)

SpecIdent == InitIdent /\ [][NextIdent]_vars

\* the select of each query goroutine that holds a result
QuerySelect(c, q) == SendResult(c, q) \/ SendCancelled(c, q)
\* the select at the end of identifyLibraryFromAPI
LookupSelect(c) == SelectResult(c) \/ SelectClosed(c) \/ SelectDeadline(c)

\* The caller of identifyLibraryFromAPI keeps running and the timer of its
\* context fires; nothing is assumed about the queries.
FairSpecLookup ==
    /\ InitIdent /\ [][NextIdent]_vars
    /\ \A c \in Callers : WF_vars(LookupSelect(c)) /\ WF_vars(LookupDeadline(c))

\* Every goroutine of the lookup keeps running and every query returns
\* (the HTTP client has a timeout, the database query takes the context).
FairSpecIdent ==
    /\ InitIdent /\ [][NextIdent]_vars
    /\ \A c \in Callers :
          /\ WF_vars(LookupSelect(c)) /\ WF_vars(LookupDeadline(c))
          /\ WF_vars(QueryPublicDataGuru(c))
          /\ WF_vars(QueryCDNApis(c))
          /\ WF_vars(QueryLocalDatabase(c))
          /\ \A q \in Sources : WF_vars(QuerySelect(c, q))
          /\ WF_vars(CloseResultChan(c))

(***************************************************************************)
(* Two urlWorker goroutines that call identifyLibrary side by side, each   *)
(* for a script with the same content that neither the URL patterns nor    *)
(* the code analysis identify.                                             *)
(***************************************************************************)
ConcCallers == {1, 2}

IdentifyUnknownScript(c) ==
    IdentifyCall(c, URLPlainApp, CodeNothing, ChecksumOther)

InitIdentConc ==
    /\ InitCallers(ConcCallers)
    /\ checksumCache = [k \in Checksums |-> NoInfo]
    /\ fileChecksumDB = [entries |-> EmptyEntries, loaded |-> FALSE,
                         useRemote |-> FALSE]
    /\ apiQueries = [k \in Checksums |-> 0]
    /\ entriesDB = EntriesDBMissing
    /\ InitPPIdle
    /\ InitJobIdle
    /\ InitNmIdle
    /\ InitFdbIdle

NextIdentConc ==
    \/ \E c \in ConcCallers : IdentifyUnknownScript(c)
    \/ \E c \in ConcCallers : LookupStart(c)
    \/ \E c \in ConcCallers : QueryPublicDataGuru(c)
    \/ \E c \in ConcCallers : QueryCDNApis(c)
    \/ \E c \in ConcCallers : QueryLocalDatabase(c)
    \/ \E c \in ConcCallers, q \in Sources : SendResult(c, q)
    \/ \E c \in ConcCallers, q \in Sources : SendCancelled(c, q)
    \/ \E c \in ConcCallers : CloseResultChan(c)
    \/ \E c \in ConcCallers : LookupDeadline(c)
    \/ \E c \in ConcCallers : SelectResult(c)
    \/ \E c \in ConcCallers : SelectClosed(c)
    \/ \E c \in ConcCallers : SelectDeadline(c)
    \/ \E c \in ConcCallers : IdentifyReturn(c)
    \/ \E c \in ConcCallers : CallerProceeds(c)

SpecIdentConc == InitIdentConc /\ [][NextIdentConc]_vars

(***************************************************************************)
(* One job after the other, in detail: processURL step by step (with        *)
(* checkURLReachability inlined probe by probe and the store calls), then   *)
(* the resultCollector's handling of the job's result.  The run is that of  *)
(* a single worker: a job is taken when the previous result is handled.     *)
(***************************************************************************)
\* checkURLReachability after the probes: "Determine the final URL"
resolveFinalURL(scheme, r) ==
    IF scheme = ""
    THEN IF r.HTTPSAvailable
         THEN [r EXCEPT !.FinalURL =
                  determineRedirectURL("https://u", r.HTTPSRedirectURL)]
         ELSE IF r.HTTPAvailable
         THEN [r EXCEPT !.FinalURL =
                  determineRedirectURL("http://u", r.HTTPRedirectURL)]
         ELSE r
    ELSE IF scheme = "http"
    THEN [r EXCEPT !.FinalURL =
             determineRedirectURL("http://u", r.HTTPRedirectURL)]
    ELSE [r EXCEPT !.FinalURL =
             determineRedirectURL("https://u", r.HTTPSRedirectURL)]

\* checkURLReachability after the HTTP probe: the HTTPS probe follows for a
\* scheme-less input, whatever the HTTP probe gave
AfterHTTPProbeShortCircuit(scheme, r) ==
    IF scheme = "" /\ ~r.HTTPAvailable THEN "probeHTTPS" ELSE "final"
AfterHTTPProbe(scheme, r) ==
    IF scheme = "" THEN "probeHTTPS" ELSE "final"

\* after a store call that returned ok or an error: the error is logged and
\* the caller goes on
AfterStoreAbortsOnFailure(ok, next) == IF ok THEN next ELSE "aborted"
AfterStore(ok, next) == next

\* processURL: "Scan the final URL (after redirects)"
\* scanURLForResults: what the scan target serves.  http.Get or html.Parse
\* can fail; otherwise the document has its script tags with a src, in
\* document order, and getScriptChecksumAndContent succeeds or fails for each
Pages ==
    {[fetch |-> f, scripts |-> <<>>] : f \in {"getErr", "parseErr"}}
    \cup {[fetch |-> "ok", scripts |-> sc] :
             sc \in UNION {[1..n -> BOOLEAN] : n \in 0..MaxScripts}}

\* the ScanResult of the script at position i of the document
ScanResult(i) == [Script |-> i, IdentifiedBy |-> "identifyLibrary"]

\* the loop over the scripts, leaving the loop at the first failed fetch
RECURSIVE scanScriptsStopAtError(_, _, _)
scanScriptsStopAtError(scripts, i, acc) ==
    IF i > Len(scripts) THEN acc
    ELSE IF ~scripts[i] THEN acc
    ELSE scanScriptsStopAtError(scripts, i + 1, Append(acc, ScanResult(i)))

\* the loop over the scripts: a failed fetch continues with the next script,
\* identifyLibrary never yields nil, so each fetched script appends a result
RECURSIVE scanScripts(_, _, _)
scanScripts(scripts, i, acc) ==
    IF i > Len(scripts) THEN acc
    ELSE IF ~scripts[i] THEN scanScripts(scripts, i + 1, acc)
    ELSE scanScripts(scripts, i + 1, Append(acc, ScanResult(i)))

\* scanURLForResults giving up at the first script that fails to load
scanURLForResultsStopAtError(page) ==
    IF page.fetch # "ok" THEN <<>>
    ELSE scanScriptsStopAtError(page.scripts, 1, <<>>)

\* http.Get or html.Parse failed: no results; else the loop over the scripts
scanURLForResults(page) ==
    IF page.fetch # "ok" THEN <<>> ELSE scanScripts(page.scripts, 1, <<>>)

\* the URL of the job as it was given
JobURL(in) == IF in.scheme = "" THEN "u" ELSE in.scheme \o "://u"

\* updateProgressDisplay, verbose: the lines printed for a result whose
\* Reachability is the record rec
verboseDisplay(result, rec, jobURL, scanResults) ==
    <<"Processing URL">> \o
    (IF result.Excluded THEN <<"Skipping excluded URL">>
     ELSE IF result.Error THEN <<"Error checking reachability">>
     ELSE IF result.Reachability = "nil" THEN <<>>
     ELSE IF ~(rec.HTTPAvailable \/ rec.HTTPSAvailable)
     THEN <<"URL not reachable">>
     ELSE <<"Reachable via">> \o
          (IF rec.HTTPRedirectURL # "" \/ rec.HTTPSRedirectURL # ""
           THEN <<"Redirects detected">> ELSE <<>>) \o
          (IF rec.FinalURL # "" /\ rec.FinalURL # jobURL
           THEN <<"Final URL">> ELSE <<>>) \o
          (IF result.Skipped THEN <<"Skipping JavaScript scan">>
           ELSE IF Len(scanResults) > 0
           THEN <<"Scanning for JavaScript libraries">> \o
                [k \in DOMAIN scanResults |-> "Library"]
           ELSE <<>>))

\* updateProgressDisplay, non-verbose: the per-URL line
progressDisplay(result, scanResults) ==
    IF ~result.Excluded /\ ~result.Skipped /\ ~result.Error
          /\ Len(scanResults) >= 0
    THEN <<"Scanning">> ELSE <<>>

\* updateProgressDisplay, non-verbose: the progress dots
progressDots(t) ==
    IF t.processed % 10 = 0 \/ t.processed = t.total
    THEN <<"count">> ELSE <<".">>

updateProgressDisplay(verb, result, rec, jobURL, scanResults, t) ==
    IF verb THEN verboseDisplay(result, rec, jobURL, scanResults)
    ELSE progressDisplay(result, scanResults) \o progressDots(t)

ScanTarget(r) == IF r.FinalURL = "" THEN "u" ELSE r.FinalURL

\* the store calls made so far for the job by the collector
CollectorStores == SelectSeq(jstores, LAMBDA c : c.by = "collector")

\* urlWorker receives the job; processURL: IncrementProcessed and the
\* exclusion check
JobTake ==
    /\ jpc = "idle" /\ jn < jtotal
    /\ \E excl \in BOOLEAN, scheme \in Schemes :
          /\ jin' = [excl |-> excl, scheme |-> scheme]
          /\ IF excl
             THEN LET out == processURL(TRUE, [err |-> FALSE,
                                               r |-> NewURLReachability])
                  IN /\ jtracker' = Increment(IncrementProcessed(jtracker),
                                              out.counter)
                     /\ jresult' = [out.result EXCEPT !.Job = jn]
                     /\ jpc' = "send"
             ELSE /\ jtracker' = IncrementProcessed(jtracker)
                  /\ jresult' = NoResult
                  /\ jpc' = "parse"
    /\ jt0' = jtracker
    /\ probes' = <<>> /\ jrec' = NewURLReachability /\ jerr' = FALSE
    /\ jscanURL' = "" /\ jscripts' = 0 /\ jstores' = <<>>
    /\ jpage' = NoPage /\ jscanResults' = <<>>
    /\ jout' = <<>>
    /\ UNCHANGED verbose
    /\ UNCHANGED <<useDB, jtotal, jn, jretVal>>
    /\ UNCHANGED notJob

\* checkURLReachability: url.Parse and the scheme; a URL that does not parse
\* or has another scheme than http/https gives (nil, error), and processURL
\* counts the error and returns
JobParse ==
    /\ jpc = "parse"
    /\ IF jin.scheme \in {"invalid", "ftp"}
       THEN LET out == processURL(FALSE, checkURLReachability(jin.scheme,
                                             ProbeFail, ProbeFail))
            IN /\ jerr' = TRUE
               /\ jtracker' = Increment(jtracker, out.counter)
               /\ jresult' = [out.result EXCEPT !.Job = jn]
               /\ jpc' = "send"
       ELSE /\ jpc' = IF jin.scheme = "https" THEN "probeHTTPS"
                      ELSE "probeHTTP"
            /\ UNCHANGED <<jerr, jtracker, jresult>>
    /\ UNCHANGED <<useDB, jtotal, jn, jin, probes, jrec, jscanURL, jscripts,
                   jstores, jt0, jretVal,
                   jpage, jscanResults, verbose, jout>>
    /\ UNCHANGED notJob

\* checkProtocol(client, httpURL, result, true), for every outcome of the
\* request
JobProbeHTTP ==
    /\ jpc = "probeHTTP"
    /\ probes' = Append(probes, "http")
    /\ \E p \in ProbeOutcomes :
          /\ jrec' = checkProtocol("http://u", jrec, TRUE, p)
          /\ jpc' = AfterHTTPProbe(jin.scheme, jrec')
    /\ UNCHANGED <<useDB, jtotal, jn, jin, jerr, jresult, jscanURL, jscripts,
                   jstores, jtracker, jt0, jretVal,
                   jpage, jscanResults, verbose, jout>>
    /\ UNCHANGED notJob

\* checkProtocol(client, httpsURL, result, false)
JobProbeHTTPS ==
    /\ jpc = "probeHTTPS"
    /\ probes' = Append(probes, "https")
    /\ \E p \in ProbeOutcomes :
          jrec' = checkProtocol("https://u", jrec, FALSE, p)
    /\ jpc' = "final"
    /\ UNCHANGED <<useDB, jtotal, jn, jin, jerr, jresult, jscanURL, jscripts,
                   jstores, jtracker, jt0, jretVal,
                   jpage, jscanResults, verbose, jout>>
    /\ UNCHANGED notJob

\* checkURLReachability sets FinalURL and returns (result, nil)
JobFinalURL ==
    /\ jpc = "final"
    /\ jrec' = resolveFinalURL(jin.scheme, jrec)
    /\ jpc' = "store"
    /\ UNCHANGED <<useDB, jtotal, jn, jin, probes, jerr, jresult, jscanURL,
                   jscripts, jstores, jtracker, jt0, jretVal,
                   jpage, jscanResults, verbose, jout>>
    /\ UNCHANGED notJob

\* main: the body of the sequential loop over the URLs for the outcome cr of
\* checkURLReachability: the counter it raises, whether it calls
\* storeURLReachability, and the URL it hands to scanURL
mainLoop(db, url, cr) ==
    IF cr.err
    THEN [counter |-> "errors", store |-> FALSE, scan |-> ""]
    ELSE IF ~(cr.r.HTTPAvailable \/ cr.r.HTTPSAvailable)
    THEN [counter |-> "errors", store |-> db, scan |-> ""]
    ELSE IF ~HasSuccessfulResponse(cr.r)
    THEN [counter |-> "skipped", store |-> db, scan |-> ""]
    ELSE [counter |-> "scanned", store |-> db,
          scan |-> IF cr.r.FinalURL = "" THEN url ELSE cr.r.FinalURL]

\* the store of the reachability record placed behind the "URL is not
\* reachable" return
JobStoreReachabilityReachableOnly ==
    /\ jpc = "store"
    /\ IF useDB /\ (jrec.HTTPAvailable \/ jrec.HTTPSAvailable)
       THEN \E ok \in BOOLEAN :
               /\ jstores' = Append(jstores, [by |-> "worker",
                                    what |-> "reachability", ok |-> ok])
               /\ jpc' = AfterStore(ok, "classify")
       ELSE /\ jpc' = "classify"
            /\ UNCHANGED jstores
    /\ UNCHANGED <<useDB, jtotal, jn, jin, probes, jrec, jerr, jresult,
                   jscanURL, jscripts, jtracker, jt0, jretVal,
                   jpage, jscanResults, verbose, jout>>
    /\ UNCHANGED notJob

\* processURL: "Store reachability data in database", by the worker
JobStoreReachability ==
    /\ jpc = "store"
    /\ IF useDB
       THEN \E ok \in BOOLEAN :
               /\ jstores' = Append(jstores, [by |-> "worker",
                                    what |-> "reachability", ok |-> ok])
               /\ jpc' = AfterStore(ok, "classify")
       ELSE /\ jpc' = "classify"
            /\ UNCHANGED jstores
    /\ UNCHANGED <<useDB, jtotal, jn, jin, probes, jrec, jerr, jresult,
                   jscanURL, jscripts, jtracker, jt0, jretVal,
                   jpage, jscanResults, verbose, jout>>
    /\ UNCHANGED notJob

\* processURL: the reachability gates and, for a job that passes them,
\* scanURLForResults, which yields any number of ScanResults
JobClassify ==
    /\ jpc = "classify"
    /\ LET out == processURL(FALSE, [err |-> FALSE, r |-> jrec])
       IN /\ jtracker' = Increment(jtracker, out.counter)
          /\ jresult' = [out.result EXCEPT !.Job = jn]
          /\ IF out.result.Scanned
             THEN \E page \in Pages :
                     /\ jscanURL' = ScanTarget(jrec)
                     /\ jpage' = page
                     /\ jscanResults' = scanURLForResults(page)
                     /\ jscripts' = Len(scanURLForResults(page))
             ELSE UNCHANGED <<jscanURL, jscripts, jpage, jscanResults>>
    /\ jpc' = "send"
    /\ UNCHANGED <<useDB, jtotal, jn, jin, probes, jrec, jerr, jstores, jt0,
                   jretVal, verbose, jout>>
    /\ UNCHANGED notJob

\* resultCollector receives the result
JobCollect ==
    /\ jpc = "send"
    /\ jpc' = "collect"
    /\ UNCHANGED <<useDB, jtotal, jn, jin, probes, jrec, jerr, jresult,
                   jscanURL, jscripts, jstores, jtracker, jt0, jretVal,
                   jpage, jscanResults, verbose, jout>>
    /\ UNCHANGED notJob

\* resultCollector: storeResult(scanResult) for the next ScanResult
JobStoreScanResult ==
    /\ jpc = "collect"
    /\ useDB /\ Len(CollectorStores) < jscripts
    /\ \E ok \in BOOLEAN :
          /\ jstores' = Append(jstores, [by |-> "collector",
                               what |-> "scanResult", ok |-> ok])
          /\ jpc' = AfterStore(ok, "collect")
    /\ UNCHANGED <<useDB, jtotal, jn, jin, probes, jrec, jerr, jresult,
                   jscanURL, jscripts, jtracker, jt0, jretVal,
                   jpage, jscanResults, verbose, jout>>
    /\ UNCHANGED notJob

\* resultCollector: the result is handled (updateProgressDisplay)
JobHandled ==
    /\ jpc = "collect"
    /\ ~useDB \/ Len(CollectorStores) >= jscripts
    /\ jout' = updateProgressDisplay(verbose, jresult, jrec, JobURL(jin),
                                     jscanResults, jtracker)
    /\ jn' = jn + 1
    /\ jpc' = "idle"
    /\ UNCHANGED <<useDB, jtotal, jin, probes, jrec, jerr, jresult, jscanURL,
                   jscripts, jstores, jtracker, jt0, jretVal,
                   jpage, jscanResults, verbose>>
    /\ UNCHANGED notJob

\* every result is handled: ProcessURLs returns nil
JobsReturn ==
    /\ jpc = "idle" /\ jn = jtotal
    /\ jpc' = "returned"
    /\ jretVal' = "nil"
    /\ UNCHANGED <<useDB, jtotal, jn, jin, probes, jrec, jerr, jresult,
                   jscanURL, jscripts, jstores, jtracker, jt0,
                   jpage, jscanResults, verbose, jout>>
    /\ UNCHANGED notJob

InitJob ==
    /\ InitIdentIdle
    /\ entriesDB = EntriesDBMissing
    /\ InitPPIdle
    /\ InitNmIdle
    /\ InitFdbIdle
    /\ useDB \in BOOLEAN
    /\ jtotal \in 1..MaxSeqJobs
    /\ jn = 0
    /\ jpc = "idle" /\ jin = NoJob
    /\ probes = <<>> /\ jrec = NewURLReachability /\ jerr = FALSE
    /\ jresult = NoResult /\ jscanURL = "" /\ jscripts = 0
    /\ jpage = NoPage /\ jscanResults = <<>>
    /\ verbose \in BOOLEAN /\ jout = <<>>
    /\ jstores = <<>>
    /\ jtracker = NewProgressTracker(jtotal)
    /\ jt0 = NewProgressTracker(jtotal)
    /\ jretVal = "none"

NextJob ==
    \/ JobTake \/ JobParse \/ JobProbeHTTP \/ JobProbeHTTPS \/ JobFinalURL
    \/ JobStoreReachability \/ JobClassify \/ JobCollect
    \/ JobStoreScanResult \/ JobHandled \/ JobsReturn

SpecJob == InitJob /\ [][NextJob]_vars

(***************************************************************************)
(* The NMAP scanner service: its HTTP handlers, runScan, saveBatch and     *)
(* loadBatches.  uuid.New() yields the batch ids 1, 2, ... in turn.        *)
(***************************************************************************)
BatchIDs == 1..MaxBatches
NoBatch == [Status |-> "none", Progress |-> 0, Results |-> ""]
NoResponse == [req |-> "none", id |-> 0, code |-> 0, body |-> NoBatch]

\* saveBatch: os.WriteFile succeeds (wrote) or fails, which is only logged
saveBatch(files, id, b, wrote) ==
    IF wrote THEN [files EXCEPT ![id] = b] ELSE files

\* loadBatches: the ids that get an entry in the batches map
loadBatches(files) == {id \in BatchIDs : files[id] # NoBatch}

\* status code of getBatchStatusHandler for /batch/{id}
getBatchStatusHandler(id) == IF id \in batches THEN 200 ELSE 404

\* status code of getBatchResultsHandler for /batch/{id}/results
getBatchResultsHandler(id) ==
    IF id \notin batches THEN 404
    ELSE IF batch[id].Status # "completed" THEN 400
    ELSE IF id \notin resultsDir THEN 404
    ELSE 200

\* POST /scan with a body of nurls URLs (-1: not JSON)
scanSingleURLHandler ==
    /\ \E nurls \in -1..2 :
          IF nurls # 1
          THEN /\ lastResp' = [req |-> "scan", id |-> 0, code |-> 400,
                            body |-> NoBatch]
               /\ UNCHANGED <<nextID, batch, scanpc, issued>>
          ELSE /\ nextID < MaxBatches
               /\ nextID' = nextID + 1
               /\ batch' = [batch EXCEPT ![nextID'] =
                               [Status |-> "running", Progress |-> 0,
                                Results |-> ""]]
               /\ scanpc' = [scanpc EXCEPT ![nextID'] = "spawned"]
               /\ issued' = issued \cup {nextID'}
               /\ lastResp' = [req |-> "scan", id |-> nextID', code |-> 200,
                            body |-> NoBatch]
    /\ UNCHANGED <<batches, batchesDir, resultsDir, restarts>>
    /\ UNCHANGED notNm

\* POST /batch with a body of nurls URLs (-1: not JSON)
createBatchHandler ==
    /\ \E nurls \in -1..2, wrote \in BOOLEAN :
          IF nurls <= 0
          THEN /\ lastResp' = [req |-> "batch", id |-> 0, code |-> 400,
                            body |-> NoBatch]
               /\ UNCHANGED <<nextID, batch, batches, batchesDir, scanpc,
                              issued>>
          ELSE /\ nextID < MaxBatches
               /\ nextID' = nextID + 1
               /\ batch' = [batch EXCEPT ![nextID'] =
                               [Status |-> "pending", Progress |-> 0,
                                Results |-> ""]]
               /\ batches' = batches \cup {nextID'}
               /\ batchesDir' = saveBatch(batchesDir, nextID',
                                          batch'[nextID'], wrote)
               /\ scanpc' = [scanpc EXCEPT ![nextID'] = "spawned"]
               /\ issued' = issued \cup {nextID'}
               /\ lastResp' = [req |-> "batch", id |-> nextID', code |-> 200,
                            body |-> NoBatch]
    /\ UNCHANGED <<resultsDir, restarts>>
    /\ UNCHANGED notNm

\* GET /batch/{id}: 404, or the batch as it is at that moment, encoded
GetBatchStatus(id) ==
    /\ lastResp' = [req |-> "status", id |-> id,
                    code |-> getBatchStatusHandler(id),
                    body |-> IF id \in batches THEN batch[id] ELSE NoBatch]
    /\ UNCHANGED <<nextID, batch, batches, batchesDir, resultsDir, scanpc,
                   issued, restarts>>
    /\ UNCHANGED notNm

\* GET /batch/{id}/results
GetBatchResults(id) ==
    /\ lastResp' = [req |-> "results", id |-> id,
                    code |-> getBatchResultsHandler(id),
                    body |-> NoBatch]
    /\ UNCHANGED <<nextID, batch, batches, batchesDir, resultsDir, scanpc,
                   issued, restarts>>
    /\ UNCHANGED notNm

\* runScan up to the start of nmap: Status running, saveBatch
RunScanStart(id) ==
    /\ scanpc[id] = "spawned"
    /\ batch' = [batch EXCEPT ![id].Status = "running"]
    /\ \E wrote \in BOOLEAN :
          batchesDir' = saveBatch(batchesDir, id, batch'[id], wrote)
    /\ scanpc' = [scanpc EXCEPT ![id] = "nmap"]
    /\ UNCHANGED <<nextID, batches, resultsDir, issued, restarts, lastResp>>
    /\ UNCHANGED notNm

\* runScan at the return of nmap, which wrote its -oX file (ok) or failed:
\* batch.Status = "completed", or Status "failed" and Results
RunScanNmapReturns(id) ==
    /\ scanpc[id] = "nmap"
    /\ \E ok \in BOOLEAN :
          IF ok
          THEN /\ batch' = [batch EXCEPT ![id].Status = "completed"]
               /\ resultsDir' = resultsDir \cup {id}
               /\ scanpc' = [scanpc EXCEPT ![id] = "progress"]
          ELSE /\ batch' = [batch EXCEPT ![id].Status = "failed",
                                         ![id].Results = "Scan failed"]
               /\ scanpc' = [scanpc EXCEPT ![id] = "save"]
               /\ UNCHANGED resultsDir
    /\ UNCHANGED <<nextID, batches, batchesDir, issued, restarts, lastResp>>
    /\ UNCHANGED notNm

\* runScan: batch.Progress = 100
RunScanSetProgress(id) ==
    /\ scanpc[id] = "progress"
    /\ batch' = [batch EXCEPT ![id].Progress = 100]
    /\ scanpc' = [scanpc EXCEPT ![id] = "save"]
    /\ UNCHANGED <<nextID, batches, batchesDir, resultsDir, issued, restarts,
                   lastResp>>
    /\ UNCHANGED notNm

\* runScan: the final saveBatch(batch)
RunScanFinish(id) ==
    /\ scanpc[id] = "save"
    /\ \E wrote \in BOOLEAN :
          batchesDir' = saveBatch(batchesDir, id, batch[id], wrote)
    /\ scanpc' = [scanpc EXCEPT ![id] = "done"]
    /\ UNCHANGED <<nextID, batch, batches, resultsDir, issued, restarts,
                   lastResp>>
    /\ UNCHANGED notNm

\* the process ends (with its goroutines and its memory) and main starts
\* again: loadBatches
Restart ==
    /\ restarts < MaxRestarts
    /\ restarts' = restarts + 1
    /\ batches' = loadBatches(batchesDir)
    /\ batch' = batchesDir
    /\ scanpc' = [id \in BatchIDs |->
                     IF scanpc[id] \in {"spawned", "nmap", "progress", "save"}
                     THEN "killed"
                     ELSE scanpc[id]]
    /\ lastResp' = NoResponse
    /\ UNCHANGED <<nextID, batchesDir, resultsDir, issued>>
    /\ UNCHANGED notNm

InitNm ==
    /\ InitIdentIdle
    /\ entriesDB = EntriesDBMissing
    /\ InitPPIdle
    /\ InitJobIdle
    /\ InitNmIdle
    /\ InitFdbIdle

NextNm ==
    \/ scanSingleURLHandler
    \/ createBatchHandler
    \/ \E id \in BatchIDs : GetBatchStatus(id)
    \/ \E id \in BatchIDs : GetBatchResults(id)
    \/ \E id \in BatchIDs : RunScanStart(id)
    \/ \E id \in BatchIDs : RunScanNmapReturns(id)
    \/ \E id \in BatchIDs : RunScanSetProgress(id)
    \/ \E id \in BatchIDs : RunScanFinish(id)
    \/ Restart

SpecNm == InitNm /\ [][NextNm]_vars

\* every runScan goroutine of the running process gets to run, and nmap
\* returns
RunScan(id) ==
    \/ RunScanStart(id) \/ RunScanNmapReturns(id) \/ RunScanSetProgress(id)
    \/ RunScanFinish(id)
FairSpecNm ==
    /\ InitNm /\ [][NextNm]_vars
    /\ \A id \in BatchIDs : WF_vars(RunScan(id))

Submitter == Start \/ SubmitJob \/ SubmitCancelled \/ CloseJobs \/ WaitWorkers
             \/ Finish
Worker(ws) == WorkerRecv(ws) \/ WorkerJobsClosed(ws) \/ WorkerCtxCheck(ws)
              \/ WorkerIncrementProcessed(ws) \/ WorkerClassify(ws)
              \/ WorkerSend(ws) \/ WorkerSendCancelled(ws)
Collector == CollectorRecv \/ CollectorClosed

Next ==
    \/ Cancel
    \/ Start \/ SubmitJob \/ SubmitCancelled \/ CloseJobs \/ WaitWorkers
    \/ Finish
    \/ \E ws \in WorkerStates : WorkerRecv(ws)
    \/ \E ws \in WorkerStates : WorkerJobsClosed(ws)
    \/ \E ws \in WorkerStates : WorkerCtxCheck(ws)
    \/ \E ws \in WorkerStates : WorkerIncrementProcessed(ws)
    \/ \E ws \in WorkerStates : WorkerClassify(ws)
    \/ \E ws \in WorkerStates : WorkerSend(ws)
    \/ \E ws \in WorkerStates : WorkerSendCancelled(ws)
    \/ CollectorRecv \/ CollectorClosed

Spec == Init /\ [][Next]_vars

\* The runs in which the caller never cancels the context: the steps of
\* Next except Cancel and the two select cases that only a cancelled context
\* makes ready.
NextUncancelled ==
    \/ Start \/ SubmitJob \/ CloseJobs \/ WaitWorkers \/ Finish
    \/ \E ws \in WorkerStates : WorkerRecv(ws)
    \/ \E ws \in WorkerStates : WorkerJobsClosed(ws)
    \/ \E ws \in WorkerStates : WorkerCtxCheck(ws)
    \/ \E ws \in WorkerStates : WorkerIncrementProcessed(ws)
    \/ \E ws \in WorkerStates : WorkerClassify(ws)
    \/ \E ws \in WorkerStates : WorkerSend(ws)
    \/ CollectorRecv \/ CollectorClosed

\* The Go scheduler runs every goroutine that can take a step: the submitter,
\* the collector and the workers (whose work is finite, so that fairness to
\* the workers together is fairness to each).
FairSpec ==
    /\ Init /\ [][NextUncancelled]_vars
    /\ WF_vars(Submitter)
    /\ WF_vars(\E ws \in WorkerStates : Worker(ws))
    /\ WF_vars(Collector)

(***************************************************************************)
(* The file checksum database on its own: SetRemoteDB and calls of          *)
(* queryFileChecksumDB, one after the other (both hold fdb.mutex for the    *)
(* whole load), on every entries.db of up to MaxLines lines.                *)
(***************************************************************************)
LineBlank == Line(FALSE, FALSE, <<Part(1, "")>>)
LineComment == Line(TRUE, FALSE, <<Part(0, "#"), Part(0, S_vue)>>)
\* the checksum of LineVue with another version
LineVueOther ==
    Line(FALSE, FALSE, <<Part(0, ChecksumInFile), Part(0, S_vue),
                         Part(0, "2.7.14"), Part(0, "manual")>>)
\* blanks around every field
LinePadded ==
    Line(FALSE, FALSE, <<Part(1, ChecksumJQuery371), Part(1, S_jquery),
                         Part(1, "3.7.1"), Part(1, "manual")>>)
LineThreeFields ==
    Line(FALSE, FALSE, <<Part(0, ChecksumOther), Part(0, S_react),
                         Part(0, "18.2.0")>>)
LineFiveFields ==
    Line(FALSE, FALSE, <<Part(0, ChecksumOther), Part(0, S_react),
                         Part(0, "18.2.0"), Part(0, "manual"),
                         Part(0, "")>>)
LineShortChecksum ==
    Line(FALSE, FALSE, <<Part(0, "abc123"), Part(0, S_react),
                         Part(0, "18.2.0"), Part(0, "manual")>>)
Lines == {LineBlank, LineComment, LineVue, LineVueOther, LinePadded,
          LineThreeFields, LineFiveFields, LineShortChecksum, LineLong}

RECURSIVE SeqsUpTo(_, _)
SeqsUpTo(S, n) ==
    IF n = 0 THEN {<<>>}
    ELSE SeqsUpTo(S, n - 1)
            \cup {Append(q, x) : q \in SeqsUpTo(S, n - 1), x \in S}

LocalSources ==
    {SourceMissing} \cup {SourceFile(ls) : ls \in SeqsUpTo(Lines, MaxLines)}
\* the download fails, or yields a file
RemoteSources == {SourceMissing, SourceFile(<<LineJQuery>>)}

SetRemoteDB(useRemote) ==
    /\ Len(dbReads) <= MaxSetRemoteDB
    /\ fileDB' = [fileDB EXCEPT !.useRemote = useRemote, !.loaded = FALSE]
    /\ dbReads' = Append(dbReads, 0)
    /\ UNCHANGED <<localSrc, remoteSrc, dbLast>>
    /\ UNCHANGED notFdb

QueryFileChecksumDB(checksum) ==
    /\ fileDB.loaded \/ dbReads[Len(dbReads)] < MaxReads
    /\ fileDB' = loadFileChecksumDB(fileDB, localSrc, remoteSrc)
    /\ dbReads' = IF fileDB.loaded THEN dbReads
                  ELSE [dbReads EXCEPT ![Len(dbReads)] = @ + 1]
    /\ dbLast' = [checksum |-> checksum,
                  info |-> queryFileChecksumDB(fileDB, localSrc, remoteSrc,
                                               checksum),
                  err |-> loadFileChecksumDBError(fileDB, localSrc,
                                                  remoteSrc)]
    /\ UNCHANGED <<localSrc, remoteSrc>>
    /\ UNCHANGED notFdb

InitFdb ==
    /\ InitIdentIdle
    /\ entriesDB = EntriesDBMissing
    /\ InitPPIdle
    /\ InitJobIdle
    /\ InitNmIdle
    /\ fileDB = [entries |-> EmptyEntries, loaded |-> FALSE,
                 useRemote |-> FALSE]
    /\ localSrc \in LocalSources
    /\ remoteSrc \in RemoteSources
    /\ dbReads = <<0>>
    /\ dbLast = NoQuery

NextFdb ==
    \/ \E useRemote \in BOOLEAN : SetRemoteDB(useRemote)
    \/ \E checksum \in Checksums : QueryFileChecksumDB(checksum)

SpecFdb == InitFdb /\ [][NextFdb]_vars


(***************************************************************************)
(* Properties of the parallel pipeline                                     *)
(***************************************************************************)
Max(a, b) == IF a > b THEN a ELSE b
ReturnedNil == pc = "returned" /\ retVal = "nil"
BucketSum == tracker.scanned + tracker.excluded + tracker.skipped + tracker.errors
\* jobs a worker has dequeued and not yet sent or abandoned
InFlight ==
    BagCardinality([ws \in {x \in WorkerStates : x.job # -1} |-> workers[ws]])

\* C1: when ProcessURLs has returned nil, scanned + excluded + skipped +
\* errors equals processed: every processed job is in exactly one bucket.
C1_BucketsSumToProcessed == ReturnedNil => BucketSum = tracker.processed
C1_Witness ==
    /\ ReturnedNil
    /\ tracker.processed >= 2
    /\ tracker.errors >= 1
    /\ tracker.scanned >= 1

\* C2: whenever ProcessURLs returns nil, processed equals the number of
\* input URLs, also when the context was cancelled during the run.
C2_ProcessedEqualsTotal == ReturnedNil => tracker.processed = urls

\* C3: if the context is cancelled while some job has not been dequeued,
\* ProcessURLs returns the cancellation error, never nil.
C3_CancelReturnsError == (pc = "returned" /\ cancelEarly) => retVal = "ctxErr"

\* C4: without cancellation no job index is dequeued or collected twice, and
\* when ProcessURLs returns every job index 0..len(urls)-1 has been dequeued
\* once, sent once and collected once.
C4_OneResultPerJob ==
    ~ctxDone =>
        /\ Cardinality(dequeued) = dequeuedCount
        /\ Cardinality(collected) = processedCount
        /\ pc = "returned" =>
              /\ dequeued = 0..(urls - 1)
              /\ collected = 0..(urls - 1)
              /\ sent = urls
C4_Witness ==
    /\ ~ctxDone /\ pc = "returned"
    /\ urls >= 2 /\ maxWorkers >= 2
    /\ processedCount = urls

\* C5 as claimed: the number of jobs in flight never exceeds the configured
\* MaxWorkers.
C5_InFlightWithinConfigured == InFlight <= cfgMaxWorkers
\* C5 as amended: the number of jobs in flight never exceeds the configured
\* MaxWorkers, or 1 if MaxWorkers is configured as 0 or less.
C5_InFlightWithinPool == InFlight <= Max(1, cfgMaxWorkers)
C5_Witness ==
    /\ cfgMaxWorkers >= 2
    /\ InFlight = cfgMaxWorkers
    /\ jobs # <<>>

\* C6: in the runs without cancellation, ProcessURLs eventually returns, for
\* every job count and every configured worker count: no such run stays
\* blocked forever.
C6_EventuallyReturns == <>(pc = "returned")
C6_Witness ==
    /\ ~ctxDone /\ ReturnedNil
    /\ cfgMaxWorkers <= 0 /\ urls >= 2

\* C7: results handled by the collector <= results sent <= processed
\* counter <= jobs dequeued <= number of input URLs, in every state.
C7_CountChain ==
    /\ processedCount <= sent
    /\ sent <= tracker.processed
    /\ tracker.processed <= dequeuedCount
    /\ dequeuedCount <= urls
C7_Witness ==
    /\ ctxDone
    /\ processedCount < sent
    /\ sent < tracker.processed
    /\ tracker.processed < dequeuedCount

\* C8: once the context is cancelled no worker sends a further URLResult on
\* the result channel.
C8_NoSendAfterCancel == [][ctxDone => sent' = sent]_vars

(***************************************************************************)
(* Properties of the identification                                        *)
(***************************************************************************)
Strategy1(c) == identifyLibraryFromURL(iin[c].scriptURL)
Strategy2(c) == identifyLibraryFromCode(iin[c].jsCode, iin[c].scriptURL)
WithChecksum(info, checksum) == [info EXCEPT !.Checksum = checksum]

\* C9: identifyLibrary never returns nil, and when the URL patterns, the
\* code analysis and the checksum lookup (a timed-out lookup included) all
\* yield nothing, the result has Method "unknown" and Version "unknown".
C9_NeverNilFallbackUnknown ==
    \A c \in Callers :
        ipc[c] = "done" =>
            /\ iret[c] # NoInfo
            /\ (Strategy1(c) = NoInfo /\ Strategy2(c) = NoInfo
                    /\ iapi[c] = NoInfo) =>
                  /\ iret[c].Method = "unknown"
                  /\ iret[c].Version = "unknown"
\* a lookup that returned nil on its deadline, a query still running
C9_Witness ==
    \E c \in Callers :
        /\ ipc[c] = "done"
        /\ iret[c].Method = "unknown"
        /\ 3 \in iran[c]
        /\ \E q \in Sources : qpc[c][q].pc = "running"

\* C10: the result comes from the first of URL pattern, code analysis,
\* checksum lookup, fallback that yields a result, and no later strategy is
\* run: no lookup goroutine is started unless strategies 1 and 2 yielded
\* nothing.
C10_FirstStrategyWins ==
    \A c \in Callers :
        /\ 3 \notin iran[c] => \A q \in Sources : qpc[c][q].pc = "idle"
        /\ ipc[c] = "done" =>
              /\ Strategy1(c) # NoInfo =>
                    /\ iret[c] = WithChecksum(Strategy1(c), iin[c].checksum)
                    /\ iran[c] = {1}
              /\ (Strategy1(c) = NoInfo /\ Strategy2(c) # NoInfo) =>
                    /\ iret[c] = WithChecksum(Strategy2(c), iin[c].checksum)
                    /\ iran[c] = {1, 2}
              /\ (Strategy1(c) = NoInfo /\ Strategy2(c) = NoInfo) =>
                    /\ iran[c] = {1, 2, 3}
                    /\ iapi[c] # NoInfo => iret[c] = iapi[c]
                    /\ iapi[c] = NoInfo => iret[c].Method = "unknown"
\* the cdnjs jQuery 3.6.0 URL with a script that carries the React header
C10_Witness ==
    \E c \in Callers :
        /\ ipc[c] = "done"
        /\ iin[c].scriptURL = URLCdnjsJQuery
        /\ iin[c].jsCode = CodeReactHeader
        /\ iret[c].Name = S_jquery
        /\ iret[c].Version = "3.6.0"
        /\ iret[c].Method = "url-pattern"

\* C11: within one run the external checksum API (queryPublicDataGuru) is
\* queried at most once per distinct checksum, whatever the outcome of the
\* first lookup of that checksum.
C11_ApiQueriedOncePerChecksum == \A k \in Checksums : apiQueries[k] <= 1

(***************************************************************************)
(* Properties of the handling of one job                                   *)
(***************************************************************************)
\* processURL has returned the result of the current job
JobClassified == jpc \in {"send", "collect"}
\* checkURLReachability has returned a record for the current job
ReachabilityComplete ==
    ~jin.excl /\ ~jerr /\ jpc \in {"store", "classify", "send", "collect"}
\* the current job has raised the processed counter and the counter of
\* bucket b, and no other
CountedOnly(b) ==
    jtracker = [jt0 EXCEPT !.processed = @ + 1, ![b] = @ + 1]
HTTPReturned200 == jrec.HTTPAvailable /\ jrec.HTTPStatusCode = StatusOK
HTTPSReturned200 == jrec.HTTPSAvailable /\ jrec.HTTPSStatusCode = StatusOK
\* the protocol a final URL belongs to
FinalURLProtocol(u) ==
    IF u \in {"https://u", "redirect:https://u"} THEN "https"
    ELSE IF u \in {"http://u", "redirect:http://u"} THEN "http"
    ELSE "none"

\* C12: a non-excluded job whose reachability check returned a record is
\* counted errored iff neither protocol is available, skipped iff some
\* protocol is available and none returned 200, scanned iff some protocol
\* returned 200; scanURLForResults is called only for scanned jobs, and a
\* job with a 200 from one protocol is never errored.
C12_ReachabilityGate ==
    (JobClassified /\ ~jin.excl /\ ~jerr) =>
        /\ CountedOnly("errors") <=>
              (~jrec.HTTPAvailable /\ ~jrec.HTTPSAvailable)
        /\ CountedOnly("skipped") <=>
              /\ jrec.HTTPAvailable \/ jrec.HTTPSAvailable
              /\ ~HTTPReturned200 /\ ~HTTPSReturned200
        /\ CountedOnly("scanned") <=> (HTTPReturned200 \/ HTTPSReturned200)
        /\ jresult.Skipped <=> CountedOnly("skipped")
        /\ jresult.Scanned <=> CountedOnly("scanned")
        /\ (jscanURL # "") <=> CountedOnly("scanned")
\* the HTTP request failed and the HTTPS request returned 200: scanned
C12_Witness ==
    /\ JobClassified /\ ~jin.excl /\ ~jerr
    /\ jin.scheme = ""
    /\ ~jrec.HTTPAvailable /\ HTTPSReturned200
    /\ CountedOnly("scanned") /\ jscanURL # ""

\* C13: the URL that is scanned for a job that passed the
\* HasSuccessfulResponse gate belongs to a protocol whose status is 200.
C13_ScannedURLReturned200 ==
    (JobClassified /\ jresult.Scanned) =>
        \/ FinalURLProtocol(jscanURL) = "https" /\ HTTPSReturned200
        \/ FinalURLProtocol(jscanURL) = "http" /\ HTTPReturned200

\* C14: when checkURLReachability has returned a record, a scheme-less input
\* has had one HTTP and one HTTPS probe, whatever the first one gave, and an
\* http or https input one probe of its scheme; and if only the HTTPS probe
\* returned 200, HasSuccessfulResponse holds and FinalURL is the HTTPS
\* redirect URL or else the HTTPS URL.
C14_ProbesAndHTTPSOnly ==
    ReachabilityComplete =>
        /\ jin.scheme = "" => probes = <<"http", "https">>
        /\ jin.scheme = "http" => probes = <<"http">>
        /\ jin.scheme = "https" => probes = <<"https">>
        /\ (HTTPSReturned200 /\ ~HTTPReturned200) =>
              /\ HasSuccessfulResponse(jrec)
              /\ jrec.FinalURL = (IF jrec.HTTPSRedirectURL # ""
                                  THEN jrec.HTTPSRedirectURL
                                  ELSE "https://u")
\* the HTTP probe got an answer (a 404) and the HTTPS probe was made all the
\* same and returned 200 after a redirect
C14_Witness ==
    /\ ReachabilityComplete
    /\ jin.scheme = ""
    /\ jrec.HTTPAvailable /\ ~HTTPReturned200
    /\ HTTPSReturned200 /\ jrec.HTTPSRedirectURL # ""
    /\ jrec.FinalURL = jrec.HTTPSRedirectURL

\* C15: a job whose URL does not parse or has an explicit scheme other than
\* http/https gets an error and no record from checkURLReachability: no
\* probe is made, the job raises the errors counter and no other, its
\* URLResult carries the error and no reachability record, nothing is stored
\* for it and it is not scanned; the run still handles every job.
C15_HardErrorJob ==
    /\ (JobClassified /\ ~jin.excl /\ jin.scheme \in {"invalid", "ftp"}) =>
          jerr
    /\ (JobClassified /\ jerr) =>
          /\ probes = <<>>
          /\ jresult.Error /\ jresult.Reachability = "nil"
          /\ ~jresult.Scanned /\ ~jresult.Skipped /\ ~jresult.Excluded
          /\ CountedOnly("errors")
          /\ jstores = <<>>
          /\ jscanURL = ""
    /\ jpc = "returned" =>
          /\ jn = jtotal
          /\ jtracker.processed = jtotal
\* an ftp:// job is refused after an earlier job of the run was scanned
C15_Witness ==
    /\ JobClassified /\ jerr /\ jin.scheme = "ftp"
    /\ useDB
    /\ jt0.scanned >= 1
    /\ jtracker.errors = 1

\* C16: every store call of a run is made by the collector, none by a
\* worker.
C16_OnlyCollectorStores ==
    \A i \in 1..Len(jstores) : jstores[i].by = "collector"

\* C17: a store call that fails never aborts the run and never changes the
\* job's classification: processURL returns the result and raises the
\* counter that the reachability record alone determines, every store call
\* due for the job is still made (one for the record, one per ScanResult),
\* and ProcessURLs returns nil with every job handled.
C17_StoreFailureHarmless ==
    /\ jpc # "aborted"
    /\ (JobClassified /\ ~jin.excl /\ ~jerr) =>
          LET out == processURL(FALSE, [err |-> FALSE, r |-> jrec])
          IN /\ jresult = [out.result EXCEPT !.Job = jn]
             /\ CountedOnly(out.counter)
    /\ (jpc \in {"idle", "returned"} /\ jn > 0 /\ useDB) =>
          Len(jstores) =
              (IF jresult.Reachability # "nil" THEN 1 ELSE 0) + jscripts
    /\ jpc = "returned" => (jretVal = "nil" /\ jn = jtotal)
\* the run has returned nil although the store of the last job's record and
\* of each of its ScanResults failed
C17_Witness ==
    /\ jpc = "returned" /\ jretVal = "nil"
    /\ jresult.Scanned
    /\ Len(jstores) >= 2
    /\ \A i \in 1..Len(jstores) : ~jstores[i].ok

Min(a, b) == IF a < b THEN a ELSE b

\* C19: the number of workers ProcessURLs starts is the smaller of the
\* configured MaxWorkers (taken as 1 when configured as 0 or less) and the
\* number of jobs, and is never less than 1, also for an empty job list.
C19_WorkerPoolSize ==
    pc # "start" =>
        /\ maxWorkers = Max(1, Min(Max(1, cfgMaxWorkers), urls))
        /\ BagCardinality(workers) = maxWorkers

Methods ==
    {"url-pattern", "code-analysis", "context-analysis", "signature-analysis",
     "publicdata-api", "checksum-db", "file-db", "local-db", "unknown"}
\* the file database holds a line for the checksum with this name and version
InFileDB(info) ==
    \E k \in DOMAIN fileChecksumDB.entries :
        LET e == fileChecksumDB.entries[k]
        IN /\ k = info.Checksum /\ e.Checksum = info.Checksum
           /\ e.Name = info.Name /\ e.Version = info.Version

C21_RestoredBatchFinishes ==
    \A id \in BatchIDs :
        (restarts > 0 /\ id \in batches
            /\ batch[id].Status \in {"pending", "running"})
        ~> (batch[id].Status \in {"completed", "failed"})

\* one step of the status of batch id along pending -> running ->
\* {completed, failed}, a batch being created as pending or running
LifecycleStep(id) ==
    \/ batch'[id].Status = batch[id].Status
    \/ batch[id].Status = "none" /\ batch'[id].Status \in {"pending", "running"}
    \/ batch[id].Status = "pending" /\ batch'[id].Status = "running"
    \/ batch[id].Status = "running"
          /\ batch'[id].Status \in {"completed", "failed"}

\* C22: the status of a batch only moves along pending -> running ->
\* {completed, failed}, completed and failed being final; a batch that a
\* client can see has Progress 100 iff its status is completed; and GET
\* /batch/{id}/results answers 200 only for a completed batch.
C22_BatchLifecycle ==
    /\ [][\A id \in batches \cap batches' : LifecycleStep(id)]_vars
    /\ [](\A id \in batches :
            (batch[id].Progress = 100) <=> (batch[id].Status = "completed"))
    /\ []((lastResp.req = "status" /\ lastResp.code = 200) =>
            ((lastResp.body.Progress = 100) <=>
                 (lastResp.body.Status = "completed")))
    /\ [](\A id \in BatchIDs :
            getBatchResultsHandler(id) = 200 =>
                batch[id].Status = "completed")

(***************************************************************************)
(* Properties of the checksum lookup                                       *)
(***************************************************************************)
\* identifyLibraryFromAPI has returned to the call
LookupOver(c) == ipc[c] \in {"returned", "done"}

\* C23: in the checksum lookup the three queries run side by side and at
\* most one result is accepted per lookup: the cache is written only by the
\* return of a lookup, with the first result received on resultChan, under
\* the checksum of the lookup, and that result is what the lookup and
\* identifyLibrary return; once the lookup has returned, what it returned
\* and the cache stay as they are, whatever the other queries deliver later.
C23_FirstResultAccepted ==
    /\ [][\A c \in Callers :
            /\ checksumCache' # checksumCache =>
                  /\ ipc[c] = "select" /\ ipc'[c] = "returned"
                  /\ resultChan[c] # <<>>
                  /\ checksumCache' =
                         [checksumCache EXCEPT ![iin[c].checksum] =
                                                   Head(resultChan[c])]
            /\ (ipc[c] = "select" /\ ipc'[c] = "returned"
                    /\ iapi'[c] # NoInfo) =>
                  /\ resultChan[c] # <<>>
                  /\ iapi'[c] = Head(resultChan[c])
                  /\ checksumCache'[iin[c].checksum] = Head(resultChan[c])
            /\ (LookupOver(c) /\ ipc'[c] \in {"returned", "done"}) =>
                  /\ iapi'[c] = iapi[c]
                  /\ checksumCache' = checksumCache
        ]_vars
    /\ [](\A c \in Callers :
            (ipc[c] = "done" /\ 3 \in iran[c] /\ iapi[c] # NoInfo) =>
                iret[c] = iapi[c])
\* a lookup has returned the first result while the result of another query
\* sits in resultChan and the third query is still running
C23_Witness ==
    \E c \in Callers :
        /\ ipc[c] = "done" /\ iapi[c] # NoInfo /\ iret[c] = iapi[c]
        /\ checksumCache[iin[c].checksum] = iapi[c]
        /\ resultChan[c] # <<>>
        /\ Head(resultChan[c]) # iapi[c]
        /\ \E q \in Sources : qpc[c][q].pc = "running"

\* C24: a lookup that returns while resultChan holds no result (all three
\* queries over without a result, or the deadline passed first) returns nil
\* and leaves the cache alone, and identifyLibrary then returns the fallback
\* record; and a lookup whose deadline has passed returns, whatever the
\* queries do.
C24_NoResultFallsThrough ==
    /\ [][\A c \in Callers :
            (ipc[c] = "select" /\ ipc'[c] # "select"
                    /\ resultChan[c] = <<>>) =>
                /\ iapi'[c] = NoInfo
                /\ checksumCache' = checksumCache
         ]_vars
    /\ [](\A c \in Callers :
            (ipc[c] = "done" /\ 3 \in iran[c] /\ iapi[c] = NoInfo) =>
                iret[c] = LibraryInfo(extractNameFromURL(iin[c].scriptURL),
                                      "unknown", iin[c].checksum, "unknown"))
    /\ \A c \in Callers :
          (ipc[c] = "select" /\ lookupCtxDone[c]) ~> (ipc[c] # "select")
\* the lookup returned nil on its deadline while all three queries were
\* still running, and identifyLibrary returned the fallback record
C24_Witness ==
    \E c \in Callers :
        /\ ipc[c] = "done" /\ 3 \in iran[c] /\ iapi[c] = NoInfo
        /\ iret[c].Method = "unknown"
        /\ checksumCache[iin[c].checksum] = NoInfo
        /\ \A q \in Sources : qpc[c][q].pc = "running"

C26_SourceReadOnce == \A i \in 1..Len(dbReads) : dbReads[i] <= 1

\* the line holds an entry: not empty, no '#' in front, four fields, a
\* checksum of 64 characters
ValidLine(line) ==
    /\ ~(Len(line.parts) = 1 /\ line.parts[1].text = "")
    /\ ~line.hash
    /\ Len(line.parts) = 4
    /\ Len(line.parts[1].text) = 64
\* the entry on a valid line
EntryOf(line) ==
    LibraryInfo(line.parts[2].text, line.parts[3].text, line.parts[1].text,
                line.parts[4].text)

\* C30: a load that finds its source takes every valid line of it as an
\* entry (the last one, where several have the same checksum), adds nothing
\* else, reports no error and leaves the database loaded, whatever other
\* lines the source holds.
C30_MalformedLinesSkipped ==
    [][(~fileDB.loaded /\ Len(dbReads') = Len(dbReads) /\ dbReads' # dbReads
            /\ dbReader(fileDB, localSrc, remoteSrc).present) =>
          LET lines == dbReader(fileDB, localSrc, remoteSrc).lines
              Last(k) == CHOOSE i \in 1..Len(lines) :
                             /\ ValidLine(lines[i])
                             /\ lines[i].parts[1].text = k
                             /\ \A j \in (i + 1)..Len(lines) :
                                   ~(ValidLine(lines[j])
                                        /\ lines[j].parts[1].text = k)
              New == {lines[i].parts[1].text :
                          i \in {j \in 1..Len(lines) : ValidLine(lines[j])}}
          IN /\ ~dbLast'.err
             /\ fileDB'.loaded
             /\ DOMAIN fileDB'.entries = DOMAIN fileDB.entries \cup New
             /\ \A k \in DOMAIN fileDB'.entries :
                   fileDB'.entries[k] =
                       IF k \in New THEN EntryOf(lines[Last(k)])
                       ELSE fileDB.entries[k]
      ]_vars

\* C27: the checksum cache only grows: once a checksum has an entry, no step
\* of any lookup, whatever others run beside it, removes the entry or puts
\* a different LibraryInfo in its place.
C27_CacheAppendOnly ==
    [][\A k \in Checksums :
          checksumCache[k] # NoInfo => checksumCache'[k] = checksumCache[k]
      ]_vars

\* C28: the exclusion of a job is decided after its reachability check has
\* run: every job whose result is marked excluded has had its URL checked
\* (requests issued, or the check ended with an error).
C28_ExcludedAfterReachability ==
    (JobClassified /\ jresult.Excluded) => (probes # <<>> \/ jerr)

\* C29: in the curated branch of the checksum lookup the built-in table is
\* asked before the file database: a result of that branch for a checksum
\* the built-in table holds has method "checksum-db".
C29_StaticTableFirst ==
    \A c \in Callers :
        (LookupOver(c) /\ iapi[c].Method \in {"checksum-db", "file-db"}
              /\ queryKnownChecksums(iin[c].checksum) # NoInfo) =>
            iapi[c].Method = "checksum-db"

\* the positions in the document of the scripts whose fetch succeeded
FetchedScripts(page) == {i \in 1..Len(page.scripts) : page.scripts[i]}

\* C31: for a job classified as scanned, the ScanResult list has exactly one
\* entry per script whose fetch succeeded, in the document order of the script
\* tags; a script whose fetch fails adds no entry, does not stop the later
\* scripts from being processed, and leaves the job counted as scanned.
C31_OneEntryPerFetchedScript ==
    jresult.Scanned =>
        /\ {jscanResults[k].Script : k \in 1..Len(jscanResults)}
              = FetchedScripts(jpage)
        /\ \A k1, k2 \in 1..Len(jscanResults) :
              k1 < k2 => jscanResults[k1].Script < jscanResults[k2].Script
        /\ jscripts = Len(jscanResults)
        /\ jtracker.scanned = jt0.scanned + 1
        /\ jtracker.errors = jt0.errors /\ jtracker.skipped = jt0.skipped

\* a scanned job whose second script failed to load between two that loaded
C31_Witness ==
    /\ jpc = "collect" /\ jresult.Scanned
    /\ jpage.fetch = "ok" /\ jpage.scripts = <<TRUE, FALSE, TRUE>>
    /\ Len(jscanResults) = 2

\* no step decreases one of the five progress counters
TrackerMonotonic ==
    /\ tracker'.processed >= tracker.processed
    /\ tracker'.scanned >= tracker.scanned
    /\ tracker'.excluded >= tracker.excluded
    /\ tracker'.skipped >= tracker.skipped
    /\ tracker'.errors >= tracker.errors

TrackerBounded ==
    /\ \A x \in {tracker.scanned, tracker.excluded, tracker.skipped,
                 tracker.errors} : x <= tracker.processed
    /\ tracker.processed <= tracker.total
    /\ BucketSum <= tracker.processed
    /\ tracker.processed - BucketSum <= maxWorkers

\* C32: no step decreases any of the five progress counters, and in every
\* reachable state each of scanned, excluded, skipped and errors is at most
\* processed, processed is at most total, and processed exceeds the sum of the
\* four buckets by at most the number of workers.
C32_CountersMonotonicBounded == []TrackerBounded /\ [][TrackerMonotonic]_vars

\* every worker of a pool of two is between IncrementProcessed and its bucket
\* while an earlier job is already counted
C32_Witness ==
    /\ maxWorkers >= 2
    /\ tracker.processed - BucketSum = maxWorkers
    /\ BucketSum >= 1 /\ tracker.total = urls

\* str has the substring sub
HasSubstring(str, sub) ==
    \E i \in 1..(Len(str) - Len(sub) + 1) :
        SubSeq(str, i, i + Len(sub) - 1) = sub

\* C33: every name produced by the URL-pattern strategy is lower-cased and
\* has '.min' removed, whatever CDN pattern matched and whatever name was
\* captured.
C33_URLNameLowerCased ==
    \A c \in Callers :
        (ipc[c] = "done" /\ iret[c].Method = "url-pattern") =>
            /\ iret[c].Name = ToLower(iret[c].Name)
            /\ ~HasSubstring(iret[c].Name, S_min)

\* C34: when ProcessURLs has returned, on the cancellation path too, every
\* worker has exited, the result channel is closed and the collector has
\* terminated, and no later step increments the tracker.
C34_NothingRunsAfterReturn ==
    [][pc = "returned" =>
          /\ wg = 0 /\ \A ws \in WorkerStates : ws.pc = "exited"
          /\ resultsClosed /\ collectorDone
          /\ tracker' = tracker]_vars

AllWorkersExited == wg = 0 /\ \A ws \in WorkerStates : ws.pc = "exited"

\* C35: the result channel is closed only when every worker has exited, so no
\* worker sends on it after the close (from then on it only loses what the
\* collector takes), and the final summary is shown only after every worker
\* has exited and the collector has signalled done.
C35_CloseAfterAllSends ==
    /\ [](resultsClosed => AllWorkersExited)
    /\ [](summaryShown => AllWorkersExited /\ resultsClosed /\ collectorDone)
    /\ [][resultsClosed =>
             /\ sent' = sent
             /\ results' = results \/ results' = Tail(results)]_vars

\* two workers have sent results, the channel is closed with a result still
\* in it
C35_Witness ==
    /\ resultsClosed /\ results # <<>>
    /\ maxWorkers >= 2 /\ sent >= 2
    /\ AllWorkersExited

\* C36: every LibraryInfo that identifyLibrary returns has the checksum that
\* was passed in as its Checksum, whichever strategy or lookup source (or the
\* cache) produced it.
C36_ChecksumIsInput ==
    \A c \in Callers :
        ipc[c] = "done" => iret[c].Checksum = iin[c].checksum

\* C37: in non-verbose mode the collector prints the per-URL "Scanning: ...
\* scripts found" line only for the result of a job that was counted as
\* scanned, never for a job counted as excluded, skipped or errored.
C37_ScanningLineOnlyForScanned ==
    (~verbose /\ jout # <<>> /\ Head(jout) = "Scanning") =>
        CountedOnly("scanned")

\* C38: in every record returned by checkURLReachability, FinalURL is
\* non-empty only if a protocol is available, and a protocol that is not
\* available has status code 0 and no redirect URL.
C38_FinalURLNeedsAvailability ==
    ReachabilityComplete =>
        /\ jrec.FinalURL # "" => (jrec.HTTPAvailable \/ jrec.HTTPSAvailable)
        /\ ~jrec.HTTPAvailable =>
              jrec.HTTPStatusCode = 0 /\ jrec.HTTPRedirectURL = ""
        /\ ~jrec.HTTPSAvailable =>
              jrec.HTTPSStatusCode = 0 /\ jrec.HTTPSRedirectURL = ""

\* C39: once SetRemoteDB has been called and the database has been loaded
\* again, a lookup returns an entry only if the source that was loaded then
\* holds it: no entry is returned that only the source loaded before held.
C39_OnlyEntriesOfNewSource ==
    (Len(dbReads) = 2 /\ dbReads[2] >= 1 /\ fileDB.loaded
         /\ dbLast.info # NoInfo) =>
        LET reader == dbReader(fileDB, localSrc, remoteSrc)
        IN /\ reader.present
           /\ \E i \in 1..Len(reader.lines) :
                 /\ ValidLine(reader.lines[i])
                 /\ reader.lines[i].parts[1].text = dbLast.checksum

\* the calls of storeURLReachability the worker made for the current job
WorkerStores == SelectSeq(jstores, LAMBDA c : c.by = "worker")

\* C40: for every job that is not excluded and every outcome of the
\* reachability check, processURL counts the job in the bucket (errors,
\* skipped, scanned) in which the sequential loop of main counts the URL,
\* stores the reachability record exactly when that loop does, and scans the
\* same URL.
C40_SameAsSequentialLoop ==
    (JobClassified /\ ~jin.excl) =>
        LET seq == mainLoop(useDB, "u", [err |-> jerr, r |-> jrec])
        IN /\ CountedOnly(seq.counter)
           /\ Len(WorkerStores) = IF seq.store THEN 1 ELSE 0
           /\ jscanURL = seq.scan

\* a job with neither protocol available: counted as an error, its record
\* stored
C40_Witness ==
    /\ JobClassified /\ ~jin.excl /\ ~jerr /\ useDB
    /\ ~jrec.HTTPAvailable /\ ~jrec.HTTPSAvailable
    /\ CountedOnly("errors")
    /\ Len(WorkerStores) = 1

TypeOK ==
    /\ urls \in 0..MaxJobs
    /\ pc \in {"start", "submit", "wait", "waitCollector", "returned"}
    /\ retVal \in {"none", "nil", "ctxErr"}
    /\ wg \in 0..MaxJobs
    /\ cpc \in {"notStarted", "range", "done"}
====
